---- MODULE Spec2Model ----
(***************************************************************************)
(* A model of the "Explain Selection with AI" Obsidian plugin: the pure    *)
(* helpers of lib.ts and the stateful parts of main.ts (the streaming      *)
(* viewer, the save-as-note flow, the settings tab and the model cache).   *)
(*                                                                         *)
(* Text is a sequence of one-character strings, so that the regular        *)
(* expression replacements of the source scan characters as the source     *)
(* does.  Where only equality and emptiness of a text matter it is a       *)
(* sequence of larger pieces (a URL, an error message, a note's content).  *)
(***************************************************************************)
EXTENDS Integers, Sequences, FiniteSets, TLC

VARIABLES
  \* buildPrompt: the inputs and the result of one call; in a viewer session
  \* selection and context are the viewer's userSelection and selectionContext
  template, selection, context, prompt,
  \* buildMenuLabel: the length limit and the result of one call, for the
  \* same template and selection
  maxLength, label,
  \* the catalog parsers: the payload of a model listing, the list parsed
  \* from it, and the list filterOpenAIModels makes of that list
  payload, parsed, reparsed,
  \* sanitizeFileName: the result of one call, for the selection
  noteName,
  \* the plugin's settings, the explain viewer (a modal: "closed" or "open")
  \* and the connection parameters it was opened with
  settings, viewer, providerConfig,
  \* the process-wide model cache, the model pickers opened so far (each with
  \* its fetch) and the network requests issued for model lists
  modelCache, pickers, requests,
  \* the streaming session of ExplainSelectionWithAiModal.onOpen
  streamState, rollingText, promptTokens, completionTokens, startTime,
  firstTokenTime, now, received, rendered, thrown, errorText, meta, fullText,
  actionRow,
  \* the save-as-note flow: the vault's files, the folder of the active file,
  \* the click handlers in flight, the number of open conflict panels, the
  \* links put in place of the editor selection and the notices shown
  vault, activeParent, saves, panels, editorLinks, notices

promptVars == <<template, selection, context, prompt, maxLength, label>>
catalogVars == <<payload, parsed, reparsed>>
\* the inputs and results of the functions of lib.ts
libVars == <<promptVars, catalogVars, noteName>>
configVars == <<settings, viewer, providerConfig>>
cacheVars == <<modelCache, pickers, requests>>
streamVars ==
  <<streamState, rollingText, promptTokens, completionTokens, startTime,
    firstTokenTime, now, received, rendered, thrown, errorText, meta, fullText,
    actionRow>>
saveVars == <<vault, activeParent, saves, panels, editorLinks, notices>>

vars == <<libVars, configVars, cacheVars, streamVars, saveVars>>

\* The text that stands for "no text yet": no sequence of characters equals it.
NoText == <<"<none>">>

(***************************************************************************)
(* Text helpers                                                            *)
(***************************************************************************)
RECURSIVE Flatten(_)
\* The concatenation of a sequence of texts.
Flatten(ss) == IF ss = <<>> THEN <<>> ELSE Head(ss) \o Flatten(Tail(ss))

\* s.startsWith(p)
StartsWith(s, p) == Len(p) <= Len(s) /\ SubSeq(s, 1, Len(p)) = p

\* s.includes(p)
Includes(s, p) ==
  \E i \in 1..(Len(s) - Len(p) + 1) : SubSeq(s, i, i + Len(p) - 1) = p

RECURSIVE ReplaceAll(_, _, _)
\* s.replace(/tok/g, () => rep) for a literal token: the matches are found
\* left to right in s, do not overlap, and the text put in is not scanned.
ReplaceAll(s, tok, rep) ==
  IF Len(s) < Len(tok) THEN s
  ELSE IF SubSeq(s, 1, Len(tok)) = tok
       THEN rep \o ReplaceAll(SubSeq(s, Len(tok) + 1, Len(s)), tok, rep)
       ELSE <<Head(s)>> \o ReplaceAll(Tail(s), tok, rep)

\* "{{selection}}" and "{{context}}"
SelectionToken ==
  <<"{", "{", "s", "e", "l", "e", "c", "t", "i", "o", "n", "}", "}">>
ContextToken == <<"{", "{", "c", "o", "n", "t", "e", "x", "t", "}", "}">>

(***************************************************************************)
(* lib.ts: settings and getProviderConfig                                  *)
(*                                                                         *)
(* A URL is a sequence of pieces, so that a trailing "/v1" or "/v1/" can   *)
(* be seen, a model identifier is a text, and every other setting is a     *)
(* string, "" when empty.                                                  *)
(***************************************************************************)
Providers == {"openai", "openrouter", "ollama", "custom"}

OpenAIBaseURL == <<"https://api.openai.com", "/v1", "/">>
OllamaBaseURL == <<"http://localhost:11434", "/v1", "/">>
OpenRouterBaseURL == <<"https://openrouter.ai/api", "/v1">>

\* Model identifiers, as texts.
Id_gpt4omini == <<"g", "p", "t", "-", "4", "o", "-", "m", "i", "n", "i">>
Id_llama3 == <<"l", "l", "a", "m", "a", "3">>
Id_claude ==
  <<"a", "n", "t", "h", "r", "o", "p", "i", "c", "/", "c", "l", "a", "u", "d", "e", "-">> \o
  <<"s", "o", "n", "n", "e", "t", "-", "4">>
Id_mymodel == <<"m", "y", "-", "m", "o", "d", "e", "l">>
Id_m == <<"m">>

DEFAULT_SETTINGS ==
  [ dropdownValue |-> "openai",
    baseURL |-> OpenAIBaseURL,
    endpoint |-> Id_gpt4omini,
    apiKey |-> "",
    openRouterModel |-> Id_claude,
    openRouterApiKey |-> "",
    openRouterReferer |-> "",
    openRouterTitle |-> "Obsidian Explain Selection" ]

\* defaultHeaders: undefined, or a set of <<header, value>> pairs.
HeadersUndefined == {<<"undefined">>}

\* A getProviderConfig that hands the configured key on as it is.
getProviderConfigRawKey(s) ==
  LET isOpenRouter == s.dropdownValue = "openrouter"
      defaultHeaders ==
        IF isOpenRouter
        THEN (IF s.openRouterReferer /= ""
              THEN {<<"HTTP-Referer", s.openRouterReferer>>} ELSE {})
             \cup
             (IF s.openRouterTitle /= ""
              THEN {<<"X-Title", s.openRouterTitle>>} ELSE {})
        ELSE {}
  IN [ baseURL |-> IF isOpenRouter THEN OpenRouterBaseURL ELSE s.baseURL,
       apiKey |-> IF isOpenRouter THEN s.openRouterApiKey ELSE s.apiKey,
       model |-> IF isOpenRouter THEN s.openRouterModel ELSE s.endpoint,
       defaultHeaders |->
         IF defaultHeaders /= {} THEN defaultHeaders ELSE HeadersUndefined ]

\* A getProviderConfig that takes the stored baseURL for every provider.
getProviderConfigStoredURL(s) ==
  LET isOpenRouter == s.dropdownValue = "openrouter"
      apiKey == IF isOpenRouter THEN s.openRouterApiKey ELSE s.apiKey
      defaultHeaders ==
        IF isOpenRouter
        THEN (IF s.openRouterReferer /= ""
              THEN {<<"HTTP-Referer", s.openRouterReferer>>} ELSE {})
             \cup
             (IF s.openRouterTitle /= ""
              THEN {<<"X-Title", s.openRouterTitle>>} ELSE {})
        ELSE {}
  IN [ baseURL |-> s.baseURL,
       apiKey |-> IF apiKey = "" THEN "-" ELSE apiKey,
       model |-> IF isOpenRouter THEN s.openRouterModel ELSE s.endpoint,
       defaultHeaders |->
         IF defaultHeaders /= {} THEN defaultHeaders ELSE HeadersUndefined ]

\* A getProviderConfig that always hands on the headers mapping it built.
getProviderConfigEmptyHeaders(s) ==
  LET isOpenRouter == s.dropdownValue = "openrouter"
      apiKey == IF isOpenRouter THEN s.openRouterApiKey ELSE s.apiKey
  IN [ baseURL |-> IF isOpenRouter THEN OpenRouterBaseURL ELSE s.baseURL,
       apiKey |-> IF apiKey = "" THEN "-" ELSE apiKey,
       model |-> IF isOpenRouter THEN s.openRouterModel ELSE s.endpoint,
       defaultHeaders |->
         IF isOpenRouter
         THEN (IF s.openRouterReferer /= ""
               THEN {<<"HTTP-Referer", s.openRouterReferer>>} ELSE {})
              \cup
              (IF s.openRouterTitle /= ""
               THEN {<<"X-Title", s.openRouterTitle>>} ELSE {})
         ELSE {} ]

getProviderConfig(s) ==
  LET isOpenRouter == s.dropdownValue = "openrouter"
      baseURL == IF isOpenRouter THEN OpenRouterBaseURL ELSE s.baseURL
      apiKey == IF isOpenRouter THEN s.openRouterApiKey ELSE s.apiKey
      model == IF isOpenRouter THEN s.openRouterModel ELSE s.endpoint
      defaultHeaders ==
        IF isOpenRouter
        THEN (IF s.openRouterReferer /= ""
              THEN {<<"HTTP-Referer", s.openRouterReferer>>} ELSE {})
             \cup
             (IF s.openRouterTitle /= ""
              THEN {<<"X-Title", s.openRouterTitle>>} ELSE {})
        ELSE {}
  IN [ baseURL |-> baseURL,
       apiKey |-> IF apiKey = "" THEN "-" ELSE apiKey,
       model |-> model,
       defaultHeaders |->
         IF defaultHeaders /= {} THEN defaultHeaders ELSE HeadersUndefined ]

\* The values the settings fields are given in the model.
BaseURLs == { <<>>, OpenAIBaseURL, OllamaBaseURL, OpenRouterBaseURL,
              <<"https://custom.api", "/v1">> }
Endpoints == {<<>>, Id_gpt4omini, Id_llama3, Id_mymodel}
ApiKeys == {"", "sk-test", "-"}
OpenRouterModels == {<<>>, Id_claude, Id_m}
OpenRouterApiKeys == {"", "sk-or-test"}
OpenRouterReferers == {"", "https://ref.com"}
OpenRouterTitles == {"", "Obsidian Explain Selection", "My App"}

SettingsValues ==
  [ dropdownValue : Providers,
    baseURL : BaseURLs,
    endpoint : Endpoints,
    apiKey : ApiKeys,
    openRouterModel : OpenRouterModels,
    openRouterApiKey : OpenRouterApiKeys,
    openRouterReferer : OpenRouterReferers,
    openRouterTitle : OpenRouterTitles ]

\* No viewer is open, so no connection parameters are in use.
NoConfig ==
  [ baseURL |-> <<>>, apiKey |-> "", model |-> NoText,
    defaultHeaders |-> HeadersUndefined ]

(***************************************************************************)
(* The parts of the state before anything has used them                    *)
(***************************************************************************)
\* firstTokenTime's null.
NullTime == -1

\* The clock's reading when the model starts (Date.now() is milliseconds
\* since 1970, so it is never 0 in a run of the plugin).
T0 == 1

\* tokens-per-second, as Number.toFixed(2) prints it: a count of hundredths,
\* or "Infinity".
Finite(h) == [kind |-> "finite", hundredths |-> h]
Infinity == [kind |-> "Infinity", hundredths |-> 0]

\* The metadata of a session that has not completed.
NoMeta ==
  [ totalDuration |-> 0, ttft |-> 0, tps |-> Finite(0), tokenInfo |-> FALSE,
    costInfo |-> FALSE, totalCost |-> 0, speedInfo |-> FALSE ]

\* No error has been caught.
NoError == [message |-> "", hasStatus |-> FALSE, status |-> 0]

\* No menu label has been built; maxLength has its default.
LabelIdle == maxLength = 50 /\ label = NoText

\* A ModelInfo's absent pricing.
NoPricing == [prompt |-> NoText, completion |-> NoText]

\* The list that stands for "nothing parsed yet".
NotParsed == <<[id |-> NoText, name |-> NoText, pricing |-> NoPricing]>>

\* No file name has been made.
NoteNameIdle == noteName = NoText

\* No listing has been parsed.
CatalogIdle ==
  /\ payload = [provider |-> "none", data |-> [present |-> FALSE, entries |-> <<>>]]
  /\ parsed = NotParsed /\ reparsed = NotParsed

PromptIdle ==
  /\ template = <<>> /\ selection = <<>> /\ context = <<>> /\ prompt = NoText
  /\ LabelIdle /\ CatalogIdle /\ NoteNameIdle

CacheIdle == modelCache = <<>> /\ pickers = <<>> /\ requests = <<>>

StreamIdle ==
  /\ streamState = "Idle"
  /\ rollingText = <<>>
  /\ promptTokens = 0 /\ completionTokens = 0
  /\ startTime = NullTime /\ firstTokenTime = NullTime /\ now = T0
  /\ received = <<>>
  /\ rendered = NoText /\ thrown = NoError /\ errorText = <<>>
  /\ meta = NoMeta /\ fullText = NoText
  /\ actionRow = "none"

SaveIdle ==
  /\ vault = <<>> /\ activeParent = <<>>
  /\ saves = <<>> /\ panels = 0
  /\ editorLinks = <<>> /\ notices = <<>>

\* The settings part of a specification that does not use the settings.
ConfigIdle ==
  /\ settings = DEFAULT_SETTINGS
  /\ viewer = "closed"
  /\ providerConfig = NoConfig

\* loadSettings: the defaults, overlaid with whatever data.json holds.
InitConfig ==
  /\ settings \in SettingsValues
  /\ viewer = "closed"
  /\ providerConfig = NoConfig
  /\ PromptIdle /\ CacheIdle /\ StreamIdle /\ SaveIdle

\* A provider dropdown that stores the choice and nothing else.
SelectProviderOnly(value) ==
  /\ viewer = "closed"
  /\ settings' = [settings EXCEPT !.dropdownValue = value]
  /\ UNCHANGED <<viewer, providerConfig, libVars, cacheVars, streamVars, saveVars>>

\* The provider dropdown's onChange.
SelectProvider(value) ==
  /\ viewer = "closed"
  /\ settings' =
       IF value = "custom"
       THEN [settings EXCEPT !.dropdownValue = value, !.baseURL = <<>>,
                             !.endpoint = <<>>, !.apiKey = ""]
       ELSE IF value = "openai"
       THEN [settings EXCEPT !.dropdownValue = value, !.baseURL = OpenAIBaseURL,
                             !.endpoint = Id_gpt4omini, !.apiKey = ""]
       ELSE IF value = "ollama"
       THEN [settings EXCEPT !.dropdownValue = value, !.baseURL = OllamaBaseURL,
                             !.endpoint = Id_llama3, !.apiKey = ""]
       ELSE IF value = "openrouter"
       THEN [settings EXCEPT !.dropdownValue = value,
                             !.baseURL = OpenRouterBaseURL]
       ELSE [settings EXCEPT !.dropdownValue = value]
  /\ UNCHANGED <<viewer, providerConfig, libVars, cacheVars, streamVars, saveVars>>

\* The text fields displayConditionalSettings shows for the active provider.
SetApiKey(v) ==
  /\ viewer = "closed"
  /\ settings.dropdownValue \in {"openai", "custom"}
  /\ settings' = [settings EXCEPT !.apiKey = v]
  /\ UNCHANGED <<viewer, providerConfig, libVars, cacheVars, streamVars, saveVars>>

SetEndpoint(v) ==
  /\ viewer = "closed"
  /\ settings.dropdownValue \in {"openai", "ollama", "custom"}
  /\ settings' = [settings EXCEPT !.endpoint = v]
  /\ UNCHANGED <<viewer, providerConfig, libVars, cacheVars, streamVars, saveVars>>

SetBaseURL(v) ==
  /\ viewer = "closed"
  /\ settings.dropdownValue = "custom"
  /\ settings' = [settings EXCEPT !.baseURL = v]
  /\ UNCHANGED <<viewer, providerConfig, libVars, cacheVars, streamVars, saveVars>>

SetOpenRouterApiKey(v) ==
  /\ viewer = "closed"
  /\ settings.dropdownValue = "openrouter"
  /\ settings' = [settings EXCEPT !.openRouterApiKey = v]
  /\ UNCHANGED <<viewer, providerConfig, libVars, cacheVars, streamVars, saveVars>>

SetOpenRouterModel(v) ==
  /\ viewer = "closed"
  /\ settings.dropdownValue = "openrouter"
  /\ settings' = [settings EXCEPT !.openRouterModel = v]
  /\ UNCHANGED <<viewer, providerConfig, libVars, cacheVars, streamVars, saveVars>>

SetOpenRouterReferer(v) ==
  /\ viewer = "closed"
  /\ settings.dropdownValue = "openrouter"
  /\ settings' = [settings EXCEPT !.openRouterReferer = v]
  /\ UNCHANGED <<viewer, providerConfig, libVars, cacheVars, streamVars, saveVars>>

SetOpenRouterTitle(v) ==
  /\ viewer = "closed"
  /\ settings.dropdownValue = "openrouter"
  /\ settings' = [settings EXCEPT !.openRouterTitle = v]
  /\ UNCHANGED <<viewer, providerConfig, libVars, cacheVars, streamVars, saveVars>>

\* openExplainModal resolves the connection parameters and opens the viewer.
OpenExplainModal ==
  /\ viewer = "closed"
  /\ providerConfig' = getProviderConfig(settings)
  /\ viewer' = "open"
  /\ UNCHANGED <<settings, libVars, cacheVars, streamVars, saveVars>>

\* The user closes the viewer.
CloseExplainModal ==
  /\ viewer = "open"
  /\ viewer' = "closed"
  /\ providerConfig' = NoConfig
  /\ UNCHANGED <<settings, libVars, cacheVars, streamVars, saveVars>>

NextConfig ==
  \/ \E value \in Providers : SelectProvider(value)
  \/ \E v \in ApiKeys : SetApiKey(v)
  \/ \E v \in Endpoints : SetEndpoint(v)
  \/ \E v \in BaseURLs : SetBaseURL(v)
  \/ \E v \in OpenRouterApiKeys : SetOpenRouterApiKey(v)
  \/ \E v \in OpenRouterModels : SetOpenRouterModel(v)
  \/ \E v \in OpenRouterReferers : SetOpenRouterReferer(v)
  \/ \E v \in OpenRouterTitles : SetOpenRouterTitle(v)
  \/ OpenExplainModal
  \/ CloseExplainModal

SpecConfig == InitConfig /\ [][NextConfig]_vars

(***************************************************************************)
(* C2                                                                      *)
(***************************************************************************)
\* The key the active provider is configured with.
ConfiguredKey ==
  IF settings.dropdownValue = "openrouter"
  THEN settings.openRouterApiKey ELSE settings.apiKey

\* C2: the apiKey getProviderConfig returns is never the empty string: an
\* empty configured key comes out as "-", a non-empty key comes out unchanged.
C2_ApiKeyNeverEmpty ==
  viewer = "open" =>
    /\ providerConfig.apiKey /= ""
    /\ ConfiguredKey = "" => providerConfig.apiKey = "-"
    /\ ConfiguredKey /= "" => providerConfig.apiKey = ConfiguredKey

\* A viewer is open for a provider whose key is empty, for each provider.
C2_Witness ==
  /\ viewer = "open"
  /\ ConfiguredKey = ""
  /\ settings.dropdownValue = "openrouter"
  /\ settings.apiKey /= ""

(***************************************************************************)
(* C11, C12                                                                *)
(***************************************************************************)
\* The key as it goes on the wire: "-" stands in for an empty key.
Coerced(key) == IF key = "" THEN "-" ELSE key

\* C11: for openrouter the baseURL is the OpenRouter API root whatever the
\* stored baseURL is, and key and model come from openRouterApiKey and
\* openRouterModel; for the other providers baseURL and model are the stored
\* baseURL and endpoint and the key is apiKey.  The result is the same
\* whatever the fields of the other group hold.
C11_FieldsByProvider ==
  viewer = "open" =>
    IF settings.dropdownValue = "openrouter"
    THEN /\ providerConfig.baseURL = OpenRouterBaseURL
         /\ providerConfig.apiKey = Coerced(settings.openRouterApiKey)
         /\ providerConfig.model = settings.openRouterModel
         /\ \A b \in BaseURLs, e \in Endpoints, k \in ApiKeys :
              getProviderConfig([settings EXCEPT !.baseURL = b, !.endpoint = e,
                                                 !.apiKey = k])
                = providerConfig
    ELSE /\ providerConfig.baseURL = settings.baseURL
         /\ providerConfig.apiKey = Coerced(settings.apiKey)
         /\ providerConfig.model = settings.endpoint
         /\ \A m \in OpenRouterModels, k \in OpenRouterApiKeys,
               r \in OpenRouterReferers, t \in OpenRouterTitles :
              getProviderConfig([settings EXCEPT !.openRouterModel = m,
                                                 !.openRouterApiKey = k,
                                                 !.openRouterReferer = r,
                                                 !.openRouterTitle = t])
                = providerConfig

\* A viewer is open for openrouter while another baseURL is stored.
C11_Witness ==
  /\ viewer = "open"
  /\ settings.dropdownValue = "openrouter"
  /\ settings.baseURL = <<"https://custom.api", "/v1">>
  /\ settings.endpoint = Id_mymodel
  /\ providerConfig.baseURL = OpenRouterBaseURL
  /\ providerConfig.model = settings.openRouterModel

\* C12: defaultHeaders has HTTP-Referer exactly when the provider is
\* openrouter and openRouterReferer is non-empty, X-Title exactly when the
\* provider is openrouter and openRouterTitle is non-empty, each with the
\* stored value; when neither qualifies defaultHeaders is undefined, never an
\* empty mapping.
C12_HeadersOnlyWhenSet ==
  viewer = "open" =>
    LET isOpenRouter == settings.dropdownValue = "openrouter"
        referer == isOpenRouter /\ settings.openRouterReferer /= ""
        title == isOpenRouter /\ settings.openRouterTitle /= ""
        headers == providerConfig.defaultHeaders
    IN /\ headers /= {}
       /\ (~referer /\ ~title) <=> headers = HeadersUndefined
       /\ (referer \/ title) =>
            /\ <<"HTTP-Referer", settings.openRouterReferer>> \in headers
                 <=> referer
            /\ <<"X-Title", settings.openRouterTitle>> \in headers <=> title
            /\ \A h \in headers : h[1] \in {"HTTP-Referer", "X-Title"}
            /\ Cardinality(headers) =
                 (IF referer THEN 1 ELSE 0) + (IF title THEN 1 ELSE 0)

\* A viewer is open for a provider other than openrouter while a title is
\* stored: no headers.
C12_Witness ==
  /\ viewer = "open"
  /\ settings.dropdownValue = "ollama"
  /\ settings.openRouterTitle = "My App"
  /\ settings.openRouterReferer = "https://ref.com"
  /\ providerConfig.defaultHeaders = HeadersUndefined

(***************************************************************************)
(* C22                                                                     *)
(***************************************************************************)
\* The step is a change of provider.
ProviderChanges == settings'.dropdownValue /= settings.dropdownValue

\* The connection fields a provider starts from.
ProviderDefaults(value) ==
  IF value = "custom"
  THEN [baseURL |-> <<>>, model |-> <<>>, apiKey |-> ""]
  ELSE IF value = "openai"
  THEN [baseURL |-> OpenAIBaseURL, model |-> Id_gpt4omini, apiKey |-> ""]
  ELSE IF value = "ollama"
  THEN [baseURL |-> OllamaBaseURL, model |-> Id_llama3, apiKey |-> ""]
  ELSE [ baseURL |-> OpenRouterBaseURL,
         model |-> DEFAULT_SETTINGS.openRouterModel,
         apiKey |-> DEFAULT_SETTINGS.openRouterApiKey ]

\* The connection fields the active provider of s uses.
UsedFields(s) ==
  IF s.dropdownValue = "openrouter"
  THEN [ baseURL |-> s.baseURL, model |-> s.openRouterModel,
         apiKey |-> s.openRouterApiKey ]
  ELSE [baseURL |-> s.baseURL, model |-> s.endpoint, apiKey |-> s.apiKey]

\* C22, as stated: after a change of provider the base URL, the model and the
\* key the new provider uses are that provider's defaults, whatever they were.
C22_ResetsToDefaults ==
  [][ ProviderChanges =>
        UsedFields(settings') = ProviderDefaults(settings'.dropdownValue)
    ]_vars

\* C22, amended: a change to custom, openai or ollama sets baseURL, endpoint
\* and apiKey to that provider's defaults and leaves the OpenRouter fields as
\* they were; a change to openrouter sets the stored baseURL to the OpenRouter
\* root and leaves every other field, the OpenRouter model and key among
\* them, as it was.
C22_ResetsGenericFields ==
  [][ ProviderChanges =>
        IF settings'.dropdownValue = "openrouter"
        THEN settings' = [settings EXCEPT !.dropdownValue = "openrouter",
                                          !.baseURL = OpenRouterBaseURL]
        ELSE /\ UsedFields(settings') = ProviderDefaults(settings'.dropdownValue)
             /\ settings' =
                  [settings EXCEPT !.dropdownValue = settings'.dropdownValue,
                                   !.baseURL = settings'.baseURL,
                                   !.endpoint = settings'.endpoint,
                                   !.apiKey = settings'.apiKey]
    ]_vars

\* openrouter is the provider, with the root as stored baseURL and with a
\* model and a key of the user's.
C22_Witness ==
  /\ settings.dropdownValue = "openrouter"
  /\ settings.baseURL = OpenRouterBaseURL
  /\ settings.openRouterModel = Id_m
  /\ settings.openRouterApiKey = "sk-or-test"
  /\ settings.endpoint = Id_llama3

(***************************************************************************)
(* lib.ts: the model catalog parsers                                       *)
(***************************************************************************)
\* The characters of the model identifiers, in the order localeCompare gives
\* them: punctuation, then digits, then letters.
Collation ==
  << "-", ":", ".", "/",
     "0", "1", "2", "3", "4", "5", "6", "7", "8", "9",
     "a", "b", "c", "d", "e", "f", "g", "h", "i", "j", "k", "l", "m",
     "n", "o", "p", "q", "r", "s", "t", "u", "v", "w", "x", "y", "z" >>

CharRank(c) == CHOOSE i \in 1..Len(Collation) : Collation[i] = c

RECURSIVE localeCompare(_, _)
\* a.localeCompare(b): negative, zero or positive.
localeCompare(a, b) ==
  IF a = <<>> THEN (IF b = <<>> THEN 0 ELSE -1)
  ELSE IF b = <<>> THEN 1
  ELSE IF Head(a) = Head(b) THEN localeCompare(Tail(a), Tail(b))
  ELSE IF CharRank(Head(a)) < CharRank(Head(b)) THEN -1 ELSE 1

\* x put into the sorted list after every entry that does not come after it.
InsertById(sorted, x) ==
  LET before == { i \in 1..Len(sorted) : localeCompare(sorted[i].id, x.id) <= 0 }
      k == IF before = {} THEN 0 ELSE CHOOSE i \in before : \A j \in before : j <= i
  IN SubSeq(sorted, 1, k) \o <<x>> \o SubSeq(sorted, k + 1, Len(sorted))

\* A sort that leaves the list as it is.
SortByIdKeepsOrder(models) == models

RECURSIVE SortById(_)
\* models.sort((a, b) => a.id.localeCompare(b.id)): ascending and stable.
SortById(models) ==
  IF models = <<>> THEN <<>>
  ELSE InsertById(SortById(SubSeq(models, 1, Len(models) - 1)),
                  models[Len(models)])

\* A value of a listing entry that JavaScript takes as true: a non-empty text.
Truthy(t) == t /= NoText /\ t /= <<>>

chatPrefixes ==
  { <<"g", "p", "t", "-">>, <<"o", "1">>, <<"o", "3">>, <<"o", "4">>,
    <<"c", "h", "a", "t", "g", "p", "t", "-">> }

excludePrefixes ==
  { <<"d", "a", "l", "l", "-", "e">>, <<"t", "t", "s", "-">>,
    <<"w", "h", "i", "s", "p", "e", "r">>,
    <<"e", "m", "b", "e", "d", "d", "i", "n", "g">>,
    <<"t", "e", "x", "t", "-", "e", "m", "b", "e", "d", "d", "i", "n", "g">>,
    <<"b", "a", "b", "b", "a", "g", "e">>, <<"d", "a", "v", "i", "n", "c", "i">> }

\* models.filter(keep) for a list of entries with an id.
RECURSIVE FilterChat(_)
FilterChat(models) ==
  IF models = <<>> THEN <<>>
  ELSE LET id == Head(models).id
           matchesChat == \E q \in chatPrefixes : StartsWith(id, q)
           excluded == \E q \in excludePrefixes : StartsWith(id, q)
       IN (IF matchesChat /\ ~excluded
           THEN <<[id |-> id, name |-> NoText, pricing |-> NoPricing]>>
           ELSE <<>>)
          \o FilterChat(Tail(models))

\* The id-only entries of a list of entries with an id.
IdOnly(models) ==
  [ i \in 1..Len(models) |->
      [id |-> models[i].id, name |-> NoText, pricing |-> NoPricing] ]

\* s back to front.
Reverse(s) == [i \in 1..Len(s) |-> s[Len(s) + 1 - i]]

\* A filterOpenAIModels that keeps every entry.
filterOpenAIModelsKeepsAll(models) == SortById(IdOnly(models))

\* A filterOpenAIModels that turns the kept entries round instead of sorting.
filterOpenAIModelsReverses(models) == Reverse(FilterChat(models))

filterOpenAIModels(models) == SortById(FilterChat(models))

\* The list that stands for a TypeError raised by the parser.
TypeError ==
  <<[id |-> <<"TypeError">>, name |-> NoText, pricing |-> NoPricing]>>

\* A parseOpenRouterModels that carries over whatever rate is there.
parseOpenRouterModelsPartial(data) ==
  LET entries == IF data.present THEN data.entries ELSE <<>>
  IN SortById(
       [ i \in 1..Len(entries) |->
           [ id |-> entries[i].id,
             name |-> IF Truthy(entries[i].name) THEN entries[i].name ELSE NoText,
             pricing |->
               IF Truthy(entries[i].pricing.prompt)
                  \/ Truthy(entries[i].pricing.completion)
               THEN [ prompt |-> entries[i].pricing.prompt,
                      completion |-> entries[i].pricing.completion ]
               ELSE NoPricing ] ])

\* A parseOllamaModels that reads data.models without looking whether it is
\* there.
parseOllamaModelsUnguarded(data) ==
  IF ~data.present THEN TypeError
  ELSE SortById(
         [ i \in 1..Len(data.entries) |->
             [ id |-> data.entries[i].name, name |-> NoText,
               pricing |-> NoPricing ] ])

\* A listing payload: whether its top-level array is there, and the array.
parseOpenRouterModels(data) ==
  LET entries == IF data.present THEN data.entries ELSE <<>>
  IN SortById(
       [ i \in 1..Len(entries) |->
           [ id |-> entries[i].id,
             name |-> IF Truthy(entries[i].name) THEN entries[i].name ELSE NoText,
             pricing |->
               IF Truthy(entries[i].pricing.prompt)
                  /\ Truthy(entries[i].pricing.completion)
               THEN [ prompt |-> entries[i].pricing.prompt,
                      completion |-> entries[i].pricing.completion ]
               ELSE NoPricing ] ])

parseOllamaModels(data) ==
  LET entries == IF data.present THEN data.entries ELSE <<>>
  IN SortById(
       [ i \in 1..Len(entries) |->
           [id |-> entries[i].name, name |-> NoText, pricing |-> NoPricing] ])

\* deriveOllamaBaseUrl: "/v1" or "/v1/" at the end of the URL is dropped.
deriveOllamaBaseUrl(baseURL) ==
  LET n == Len(baseURL)
  IN IF baseURL = <<>> THEN <<"http://localhost:11434">>
     ELSE IF n >= 2 /\ baseURL[n - 1] = "/v1" /\ baseURL[n] = "/"
          THEN SubSeq(baseURL, 1, n - 2)
     ELSE IF baseURL[n] = "/v1" THEN SubSeq(baseURL, 1, n - 1)
     ELSE baseURL

\* The listings the providers answer with in the model.
Rate_3 == <<"0", ".", "0", "0", "0", "0", "0", "3">>
Rate_15 == <<"0", ".", "0", "0", "0", "0", "1", "5">>
Id_gpt4o == <<"g", "p", "t", "-", "4", "o">>
Id_whisper == <<"w", "h", "i", "s", "p", "e", "r", "-", "1">>
Id_mistral == <<"m", "i", "s", "t", "r", "a", "l">>

OpenRouterListings ==
  { [ present |-> TRUE,
      entries |->
        << [ id |-> Id_m, name |-> <<"M">>,
             pricing |-> [prompt |-> Rate_3, completion |-> NoText] ],
           [ id |-> Id_claude, name |-> NoText,
             pricing |-> [prompt |-> Rate_3, completion |-> Rate_15] ] >> ],
    [ present |-> TRUE,
      entries |->
        << [ id |-> Id_m, name |-> <<"M">>,
             pricing |-> [prompt |-> Rate_15, completion |-> Rate_15] ] >> ],
    [ present |-> FALSE, entries |-> <<>> ] }

OpenAIListings ==
  { [ present |-> TRUE,
      entries |-> << [id |-> Id_whisper], [id |-> Id_gpt4omini], [id |-> Id_gpt4o] >> ],
    [ present |-> TRUE, entries |-> << [id |-> Id_gpt4omini] >> ],
    [ present |-> FALSE, entries |-> <<>> ] }

OllamaListings ==
  { [ present |-> TRUE,
      entries |-> << [name |-> Id_mistral], [name |-> Id_llama3] >> ],
    [ present |-> TRUE, entries |-> << [name |-> Id_llama3] >> ],
    [ present |-> FALSE, entries |-> <<>> ] }

(***************************************************************************)
(* main.ts: modelCache, fetchModelsForProvider and ModelPickerModal        *)
(*                                                                         *)
(* modelCache is a function whose domain is the providers that have an     *)
(* entry.  A picker is kept while its modal is open or its request is in   *)
(* flight; after that nothing refers to it.                                *)
(***************************************************************************)
MaxPickers == 2
MaxRequests == 2

\* A fetchModelsForProvider that does not look in the cache.
fetchModelsForProviderNoCache(provider, apiKey, baseURL) ==
  IF provider = "openrouter"
  THEN [ kind |-> "request",
         url |-> <<"https://openrouter.ai/api", "/v1", "/models">>,
         authorization |-> "" ]
  ELSE IF provider = "openai"
  THEN IF apiKey = ""
       THEN [ kind |-> "throw",
              message |-> "OpenAI API key is required to fetch models." ]
       ELSE [ kind |-> "request",
              url |-> <<"https://api.openai.com", "/v1", "/models">>,
              authorization |-> apiKey ]
  ELSE IF provider = "ollama"
  THEN [ kind |-> "request",
         url |-> deriveOllamaBaseUrl(baseURL) \o <<"/api/tags">>,
         authorization |-> "" ]
  ELSE [kind |-> "throw", message |-> "No model fetching for provider"]

\* A fetchModelsForProvider that asks OpenAI without looking at the key.
fetchModelsForProviderAnyKey(provider, apiKey, baseURL) ==
  IF provider \in DOMAIN modelCache
  THEN [kind |-> "cached", models |-> modelCache[provider]]
  ELSE IF provider = "openrouter"
  THEN [ kind |-> "request",
         url |-> <<"https://openrouter.ai/api", "/v1", "/models">>,
         authorization |-> "" ]
  ELSE IF provider = "openai"
  THEN [ kind |-> "request",
         url |-> <<"https://api.openai.com", "/v1", "/models">>,
         authorization |-> apiKey ]
  ELSE IF provider = "ollama"
  THEN [ kind |-> "request",
         url |-> deriveOllamaBaseUrl(baseURL) \o <<"/api/tags">>,
         authorization |-> "" ]
  ELSE [kind |-> "throw", message |-> "No model fetching for provider"]

\* What fetchModelsForProvider does up to its first await: it returns the
\* cached list, throws, or issues a request.
fetchModelsForProvider(provider, apiKey, baseURL) ==
  IF provider \in DOMAIN modelCache
  THEN [kind |-> "cached", models |-> modelCache[provider]]
  ELSE IF provider = "openrouter"
  THEN [ kind |-> "request",
         url |-> <<"https://openrouter.ai/api", "/v1", "/models">>,
         authorization |-> "" ]
  ELSE IF provider = "openai"
  THEN IF apiKey = ""
       THEN [ kind |-> "throw",
              message |-> "OpenAI API key is required to fetch models." ]
       ELSE [ kind |-> "request",
              url |-> <<"https://api.openai.com", "/v1", "/models">>,
              authorization |-> apiKey ]
  ELSE IF provider = "ollama"
  THEN [ kind |-> "request",
         url |-> deriveOllamaBaseUrl(baseURL) \o <<"/api/tags">>,
         authorization |-> "" ]
  ELSE [kind |-> "throw", message |-> "No model fetching for provider"]

\* What fetchModelsForProvider returns for the listing its request got.
parseListing(provider, listing) ==
  IF provider = "openrouter" THEN parseOpenRouterModels(listing)
  ELSE IF provider = "openai"
  THEN filterOpenAIModels(IF listing.present THEN listing.entries ELSE <<>>)
  ELSE parseOllamaModels(listing)

Listings(provider) ==
  IF provider = "openrouter" THEN OpenRouterListings
  ELSE IF provider = "openai" THEN OpenAIListings
  ELSE OllamaListings

\* The errors requestUrl fails with.
FetchErrors == {"net::ERR_CONNECTION_REFUSED"}

\* The picker's own write of the list it got.
CacheWrite(cache, provider, models) == (provider :> models) @@ cache

\* s without its i-th element.
RemoveAt(s, i) == SubSeq(s, 1, i - 1) \o SubSeq(s, i + 1, Len(s))

NoPickerOpen == \A i \in 1..Len(pickers) : ~pickers[i].open

\* The stored settings the model-cache specification starts from: none (the
\* defaults), or an Ollama setup on another host.
CacheSettings ==
  { DEFAULT_SETTINGS,
    [DEFAULT_SETTINGS EXCEPT !.dropdownValue = "ollama",
                             !.baseURL = <<"http://h:1", "/v1">>,
                             !.endpoint = Id_llama3] }

InitCache ==
  /\ settings \in CacheSettings
  /\ viewer = "closed"
  /\ providerConfig = NoConfig
  /\ CacheIdle /\ PromptIdle /\ StreamIdle /\ SaveIdle

\* "Browse Models": a ModelPickerModal is opened for the active provider and
\* its onOpen runs up to the request (to its end, when there is none).
BrowseModels ==
  /\ viewer = "closed"
  /\ NoPickerOpen
  /\ Len(pickers) < MaxPickers
  /\ settings.dropdownValue \in {"openai", "openrouter", "ollama"}
  /\ LET provider == settings.dropdownValue
         apiKey == IF provider = "openai" THEN settings.apiKey ELSE ""
         baseURL == IF provider = "ollama" THEN settings.baseURL ELSE <<>>
         got == fetchModelsForProvider(provider, apiKey, baseURL)
         picker == [ provider |-> provider, open |-> TRUE, requested |-> FALSE,
                     status |-> "loading", allModels |-> <<>>, error |-> "" ]
     IN \/ /\ got.kind = "cached"
           /\ pickers' = Append(pickers,
                [picker EXCEPT !.status = "listed", !.allModels = got.models])
           /\ modelCache' = CacheWrite(modelCache, provider, got.models)
           /\ UNCHANGED requests
        \/ /\ got.kind = "throw"
           /\ pickers' = Append(pickers,
                [picker EXCEPT !.status = "error", !.error = got.message])
           /\ UNCHANGED <<modelCache, requests>>
        \/ /\ got.kind = "request"
           /\ Len(requests) < MaxRequests
           /\ pickers' = Append(pickers, [picker EXCEPT !.requested = TRUE])
           /\ requests' = Append(requests,
                [ provider |-> provider, url |-> got.url,
                  authorization |-> got.authorization ])
           /\ UNCHANGED modelCache
  /\ UNCHANGED <<configVars, libVars, streamVars, saveVars>>

\* A picker that leaves an entry that is there already.
FetchResolveKeepsEntry(i, listing) ==
  /\ pickers[i].status = "loading"
  /\ LET models == parseListing(pickers[i].provider, listing)
         done == [pickers[i] EXCEPT !.status = "listed", !.allModels = models]
     IN /\ modelCache' = IF pickers[i].provider \in DOMAIN modelCache
                         THEN modelCache
                         ELSE CacheWrite(modelCache, pickers[i].provider, models)
        /\ pickers' = IF pickers[i].open THEN [pickers EXCEPT ![i] = done]
                      ELSE RemoveAt(pickers, i)
  /\ UNCHANGED <<requests, configVars, libVars, streamVars, saveVars>>

\* A picker that writes an empty list to the cache when its request fails.
FetchRejectCachesNothing(i, err) ==
  /\ pickers[i].status = "loading"
  /\ pickers' =
       IF pickers[i].open
       THEN [pickers EXCEPT ![i] = [@ EXCEPT !.status = "error", !.error = err]]
       ELSE RemoveAt(pickers, i)
  /\ modelCache' = CacheWrite(modelCache, pickers[i].provider, <<>>)
  /\ UNCHANGED <<requests, configVars, libVars, streamVars, saveVars>>

\* The request of picker i is answered: the list is parsed, written to the
\* cache and shown.
FetchResolve(i, listing) ==
  /\ pickers[i].status = "loading"
  /\ LET models == parseListing(pickers[i].provider, listing)
         done == [pickers[i] EXCEPT !.status = "listed", !.allModels = models]
     IN /\ modelCache' = CacheWrite(modelCache, pickers[i].provider, models)
        /\ pickers' = IF pickers[i].open THEN [pickers EXCEPT ![i] = done]
                      ELSE RemoveAt(pickers, i)
  /\ UNCHANGED <<requests, configVars, libVars, streamVars, saveVars>>

\* The request of picker i fails: the picker shows the error.
FetchReject(i, err) ==
  /\ pickers[i].status = "loading"
  /\ pickers' =
       IF pickers[i].open
       THEN [pickers EXCEPT ![i] = [@ EXCEPT !.status = "error", !.error = err]]
       ELSE RemoveAt(pickers, i)
  /\ UNCHANGED <<modelCache, requests, configVars, libVars, streamVars,
                 saveVars>>

\* The picker is closed (a model was clicked, or Esc): onClose.
ClosePicker(i) ==
  /\ pickers[i].open
  /\ pickers' = IF pickers[i].status = "loading"
                THEN [pickers EXCEPT ![i].open = FALSE]
                ELSE RemoveAt(pickers, i)
  /\ UNCHANGED <<modelCache, requests, configVars, libVars, streamVars,
                 saveVars>>

NextCache ==
  \/ BrowseModels
  \/ \E i \in 1..Len(pickers) :
       \E listing \in Listings(pickers[i].provider) : FetchResolve(i, listing)
  \/ \E i \in 1..Len(pickers) : \E err \in FetchErrors : FetchReject(i, err)
  \/ \E i \in 1..Len(pickers) : ClosePicker(i)
  \/ NoPickerOpen /\ \E value \in Providers : SelectProvider(value)
  \/ NoPickerOpen /\ \E v \in ApiKeys : SetApiKey(v)

SpecCache == InitCache /\ [][NextCache]_vars

(***************************************************************************)
(* C10                                                                     *)
(***************************************************************************)
\* C10 as stated: once the cache holds a list for a provider, that entry is
\* never removed, refreshed or replaced, so every later fetch returns that
\* same list.
C10_EntryNeverChanges ==
  [][\A p \in DOMAIN modelCache :
       p \in DOMAIN modelCache' /\ modelCache'[p] = modelCache[p]]_vars

\* A step that opens a picker (and so starts a fetch).
FetchStarts == Len(pickers') = Len(pickers) + 1

\* C10, amended: a fetch started while the cache holds a list for the provider
\* returns that list and issues no request, whatever the settings have become;
\* a request is issued only for a provider without an entry; no entry is ever
\* removed, and an entry is replaced only when the answer to a request that
\* was still in flight arrives.
C10_CachedFetchNoRequest ==
  [][/\ FetchStarts /\ settings.dropdownValue \in DOMAIN modelCache =>
          LET new == pickers'[Len(pickers')]
          IN /\ new.status = "listed"
             /\ new.allModels = modelCache[settings.dropdownValue]
             /\ ~new.requested
             /\ requests' = requests
             /\ modelCache' = modelCache
     /\ requests' /= requests =>
          /\ FetchStarts
          /\ settings.dropdownValue \notin DOMAIN modelCache
     /\ \A p \in DOMAIN modelCache :
          /\ p \in DOMAIN modelCache'
          /\ modelCache'[p] /= modelCache[p] =>
               \E i \in 1..Len(pickers) :
                 /\ pickers[i].provider = p
                 /\ pickers[i].status = "loading"
                 /\ pickers[i].requested
                 /\ Len(pickers') = Len(pickers) - 1
                    \/ pickers'[i].status = "listed"]_vars

\* A picker for Ollama shows the cached list without a request of its own,
\* after the user switched provider and back and the list had been fetched from
\* another host than the one now configured.
C10_Witness ==
  /\ settings.dropdownValue = "ollama"
  /\ settings.baseURL = OllamaBaseURL
  /\ "ollama" \in DOMAIN modelCache
  /\ modelCache["ollama"] /= <<>>
  /\ \E i \in 1..Len(pickers) :
       /\ pickers[i].provider = "ollama"
       /\ pickers[i].status = "listed"
       /\ ~pickers[i].requested
       /\ pickers[i].allModels = modelCache["ollama"]
  /\ \E k \in 1..Len(requests) :
       /\ requests[k].provider = "ollama"
       /\ requests[k].url = <<"http://h:1", "/api/tags">>
  /\ \A k \in 1..Len(requests) :
       requests[k].provider = "ollama" => requests[k].url[1] = "http://h:1"

(***************************************************************************)
(* C24                                                                     *)
(***************************************************************************)
KeyRequired == "OpenAI API key is required to fetch models."

\* C24: a fetch for openai that starts with an empty API key and no cached
\* list fails with the configuration error: the picker shows that error, no
\* request is issued for it and the cache is as it was.
C24_MissingKeyStopsFetch ==
  [][ ( /\ FetchStarts
        /\ settings.dropdownValue = "openai"
        /\ settings.apiKey = ""
        /\ "openai" \notin DOMAIN modelCache ) =>
        LET new == pickers'[Len(pickers')]
        IN /\ new.provider = "openai"
           /\ new.status = "error"
           /\ new.error = KeyRequired
           /\ ~new.requested
           /\ requests' = requests
           /\ modelCache' = modelCache
    ]_vars

\* The picker for openai shows the configuration error; nothing was ever
\* requested and nothing is cached.
C24_Witness ==
  /\ settings.dropdownValue = "openai" /\ settings.apiKey = ""
  /\ \E i \in 1..Len(pickers) :
       /\ pickers[i].provider = "openai"
       /\ pickers[i].open
       /\ pickers[i].status = "error"
       /\ pickers[i].error = KeyRequired
  /\ requests = <<>>
  /\ DOMAIN modelCache = {}

(***************************************************************************)
(* C28                                                                     *)
(***************************************************************************)
\* The pickers whose request for provider p is in flight.
InFlight(p) ==
  { i \in 1..Len(pickers) :
      pickers[i].provider = p /\ pickers[i].status = "loading" }

\* The lists a fetch for provider p can return.
ParsedListings(p) == { parseListing(p, l) : l \in Listings(p) }

\* C28: a fetch started while another for the same provider is in flight
\* (with no entry in the cache, and with a key for openai) issues a request
\* of its own.  Whatever the order of the answers, the picker of an answered
\* fetch lists what it got without an error, and the provider's entry becomes
\* the list of the fetch answered in that step, also when an entry was there:
\* the fetch that finishes last has written the entry.
C28_RaceLastWriteWins ==
  /\ [][ LET p == settings.dropdownValue
         IN ( /\ FetchStarts
              /\ InFlight(p) /= {}
              /\ p \notin DOMAIN modelCache
              /\ ~(p = "openai" /\ settings.apiKey = "") ) =>
              /\ Len(requests') = Len(requests) + 1
              /\ requests'[Len(requests')].provider = p
              /\ pickers'[Len(pickers')].requested
              /\ pickers'[Len(pickers')].status = "loading"
       ]_vars
  /\ [][ /\ \A i \in 1..Len(pickers) :
              ( /\ Len(pickers') = Len(pickers)
                /\ pickers[i].status = "loading"
                /\ pickers'[i].status = "listed" ) =>
                /\ pickers'[i].allModels \in ParsedListings(pickers[i].provider)
                /\ pickers'[i].error = ""
                /\ modelCache'[pickers[i].provider] = pickers'[i].allModels
         /\ \A p \in DOMAIN modelCache' :
              (p \notin DOMAIN modelCache \/ modelCache'[p] /= modelCache[p]) =>
                /\ InFlight(p) /= {}
                /\ Cardinality({ i \in 1..Len(pickers') :
                                   pickers'[i].provider = p
                                   /\ pickers'[i].status = "loading" })
                   = Cardinality(InFlight(p)) - 1
                /\ modelCache'[p] \in ParsedListings(p)
       ]_vars

\* Two requests went out for openrouter; the second fetch was answered first
\* and its picker lists what it got; the first, whose picker was closed, was
\* answered last with another list, and that list is the entry.
C28_Witness ==
  /\ Len(requests) = 2
  /\ requests[1].provider = "openrouter" /\ requests[2].provider = "openrouter"
  /\ Len(pickers) = 1
  /\ pickers[1].provider = "openrouter"
  /\ pickers[1].open /\ pickers[1].requested
  /\ pickers[1].status = "listed"
  /\ "openrouter" \in DOMAIN modelCache
  /\ modelCache["openrouter"] /= pickers[1].allModels

\* The other order: the first fetch, whose picker was closed, has been
\* answered and has written the entry; the second is still in flight.
C28_FirstAnsweredFirst ==
  /\ Len(requests) = 2
  /\ requests[1].provider = "openrouter" /\ requests[2].provider = "openrouter"
  /\ Len(pickers) = 1
  /\ pickers[1].open /\ pickers[1].requested
  /\ pickers[1].status = "loading"
  /\ "openrouter" \in DOMAIN modelCache

(***************************************************************************)
(* C29                                                                     *)
(***************************************************************************)
\* The step ends a fetch in failure, as far as a picker shows it: a new
\* picker opens on an error, or a picker that was loading shows one.
FetchFails ==
  \/ FetchStarts /\ pickers'[Len(pickers')].status = "error"
  \/ /\ Len(pickers') = Len(pickers)
     /\ \E i \in 1..Len(pickers) :
          pickers[i].status = "loading" /\ pickers'[i].status = "error"

\* C29: an entry of the cache is a list that an answered request for that
\* provider was parsed to.  A fetch that fails (the request fails, the key for
\* openai is missing, the provider is not one that lists models) writes
\* nothing to the cache and issues no further request: requests are issued
\* only by a fetch the user starts, and such a fetch, for a provider that
\* still has no entry, issues a request again (given a key, for openai).
C29_OnlySuccessIsCached ==
  /\ [](/\ \A p \in DOMAIN modelCache :
             /\ modelCache[p] \in ParsedListings(p)
             /\ \E k \in 1..Len(requests) : requests[k].provider = p
        /\ "custom" \notin DOMAIN modelCache
        /\ fetchModelsForProvider("custom", "", <<>>).kind = "throw")
  /\ [][ /\ FetchFails => modelCache' = modelCache /\ requests' = requests
         /\ modelCache' /= modelCache =>
              \E i \in 1..Len(pickers) :
                /\ pickers[i].status = "loading" /\ pickers[i].requested
                /\ pickers[i].provider \in DOMAIN modelCache'
                /\ modelCache' = CacheWrite(modelCache, pickers[i].provider,
                                            modelCache'[pickers[i].provider])
         /\ requests' /= requests => FetchStarts
         /\ ( /\ FetchStarts
              /\ settings.dropdownValue \notin DOMAIN modelCache
              /\ ~(settings.dropdownValue = "openai" /\ settings.apiKey = "") ) =>
              /\ Len(requests') = Len(requests) + 1
              /\ requests'[Len(requests')].provider = settings.dropdownValue
       ]_vars

\* The request of a first fetch for Ollama failed and its picker was closed;
\* the cache has no entry, and the fetch the user started next has issued a
\* second request.
C29_Witness ==
  /\ Len(requests) = 2
  /\ requests[1].provider = "ollama" /\ requests[2].provider = "ollama"
  /\ Len(pickers) = 1
  /\ pickers[1].provider = "ollama"
  /\ pickers[1].open /\ pickers[1].requested
  /\ pickers[1].status = "loading"
  /\ DOMAIN modelCache = {}

(***************************************************************************)
(* The catalog parsers, applied to the listings a provider can answer with *)
(***************************************************************************)
MaxEntries == 3

Id_o1 == <<"o", "1">>

\* Every sequence of at most n elements of S.
SeqsUpTo(S, n) == UNION { [1..k -> S] : k \in 0..n }

\* The entries of the listings: OpenAI ids that are allow-listed, that are
\* deny-listed and that are neither; OpenRouter entries with and without a
\* name, with both rates, one rate, an empty rate and none; Ollama names.
OpenAIEntries ==
  { [id |-> x] : x \in {Id_gpt4o, Id_gpt4omini, Id_o1, Id_whisper, Id_mistral} }

OpenRouterEntries ==
  { [ id |-> Id_m, name |-> <<"M">>,
      pricing |-> [prompt |-> pr, completion |-> co] ] :
      pr \in {NoText, <<>>, Rate_3}, co \in {NoText, Rate_15} }
  \cup
  { [ id |-> Id_claude, name |-> NoText,
      pricing |-> [prompt |-> pr, completion |-> co] ] :
      pr \in {NoText, Rate_3}, co \in {NoText, Rate_15} }

OllamaEntries == { [name |-> x] : x \in {Id_mistral, Id_llama3, Id_m} }

EntriesOf(provider) ==
  IF provider = "openai" THEN OpenAIEntries
  ELSE IF provider = "openrouter" THEN OpenRouterEntries
  ELSE OllamaEntries

\* The payloads of a provider: without the top-level field, and with every
\* list of at most MaxEntries entries, in every order.
CatalogPayloads(provider) ==
  { [provider |-> provider, data |-> [present |-> FALSE, entries |-> <<>>]] }
  \cup
  { [provider |-> provider, data |-> [present |-> TRUE, entries |-> es]] :
      es \in SeqsUpTo(EntriesOf(provider), MaxEntries) }

InitCatalog ==
  /\ \E provider \in {"openai", "openrouter", "ollama"} :
       payload \in CatalogPayloads(provider)
  /\ parsed = NotParsed /\ reparsed = NotParsed
  /\ template = <<>> /\ selection = <<>> /\ context = <<>> /\ prompt = NoText
  /\ LabelIdle /\ NoteNameIdle
  /\ ConfigIdle /\ CacheIdle /\ StreamIdle /\ SaveIdle

\* fetchModelsForProvider parses the answer to its request.
ParseListing ==
  /\ parsed = NotParsed
  /\ parsed' = parseListing(payload.provider, payload.data)
  /\ UNCHANGED <<payload, reparsed, promptVars, noteName, configVars, cacheVars,
                 streamVars, saveVars>>

\* filterOpenAIModels is given the list it has returned.
FilterAgain ==
  /\ payload.provider = "openai"
  /\ parsed /= NotParsed /\ reparsed = NotParsed
  /\ reparsed' = filterOpenAIModels(parsed)
  /\ UNCHANGED <<payload, parsed, promptVars, noteName, configVars, cacheVars,
                 streamVars, saveVars>>

NextCatalog == ParseListing \/ FilterAgain

SpecCatalog == InitCatalog /\ [][NextCatalog]_vars

(***************************************************************************)
(* C16 .. C20                                                              *)
(***************************************************************************)
\* The entries of the payload's top-level array, none when it is missing.
PayloadEntries ==
  IF payload.data.present THEN payload.data.entries ELSE <<>>

\* The id of an entry of the payload: Ollama's is its name.
EntryId(e) == IF payload.provider = "ollama" THEN e.name ELSE e.id

Allowed(id) == \E q \in chatPrefixes : StartsWith(id, q)
Denied(id) == \E q \in excludePrefixes : StartsWith(id, q)

\* The entries the parser retains: for OpenAI the chat models, else all.
Retained(e) ==
  payload.provider = "openai" => (Allowed(e.id) /\ ~Denied(e.id))

\* How many entries of the list have this id.
CountId(models, id) == Cardinality({ i \in 1..Len(models) : models[i].id = id })

CountRetained(id) ==
  Cardinality({ i \in 1..Len(PayloadEntries) :
                  /\ EntryId(PayloadEntries[i]) = id
                  /\ Retained(PayloadEntries[i]) })

AllIds ==
  {Id_gpt4o, Id_gpt4omini, Id_o1, Id_whisper, Id_mistral, Id_llama3, Id_m,
   Id_claude}

\* C16: filterOpenAIModels keeps exactly the entries whose id starts with an
\* allow-listed prefix and with no deny-listed prefix, and a kept entry has
\* its id and nothing else.
C16_AllowThenDeny ==
  (payload.provider = "openai" /\ parsed /= NotParsed) =>
    /\ \A i \in 1..Len(parsed) :
         /\ Allowed(parsed[i].id) /\ ~Denied(parsed[i].id)
         /\ parsed[i].name = NoText /\ parsed[i].pricing = NoPricing
    /\ \A id \in AllIds :
         CountId(parsed, id) =
           IF Allowed(id) /\ ~Denied(id)
           THEN CountId(PayloadEntries, id) ELSE 0

\* A deny-listed id, an id on neither list and a chat model: one is kept.
C16_Witness ==
  /\ payload.provider = "openai" /\ parsed /= NotParsed
  /\ PayloadEntries = <<[id |-> Id_whisper], [id |-> Id_mistral], [id |-> Id_o1]>>
  /\ Len(parsed) = 1 /\ parsed[1].id = Id_o1

\* C17: filterOpenAIModels of a list it has returned is that list, with the
\* same entries in the same order.
C17_Idempotent == reparsed /= NotParsed => reparsed = parsed

\* A listing that was out of order and had an entry to drop was filtered,
\* and the result was filtered again.
C17_Witness ==
  /\ reparsed /= NotParsed
  /\ PayloadEntries =
       <<[id |-> Id_gpt4omini], [id |-> Id_whisper], [id |-> Id_gpt4o]>>
  /\ Len(reparsed) = 2

\* C18: the list a parser returns is ascending by id whatever the order of
\* the entries was, and has one entry for each entry the parser retains
\* (Ollama's with the name as id and without a display name).
C18_SortedById ==
  parsed /= NotParsed =>
    /\ \A i, j \in 1..Len(parsed) :
         i < j => localeCompare(parsed[i].id, parsed[j].id) <= 0
    /\ \A id \in AllIds : CountId(parsed, id) = CountRetained(id)
    /\ payload.provider = "ollama" =>
         \A i \in 1..Len(parsed) : parsed[i].name = NoText

\* Three Ollama models listed in descending order come out ascending.
C18_Witness ==
  /\ payload.provider = "ollama" /\ parsed /= NotParsed
  /\ PayloadEntries = <<[name |-> Id_mistral], [name |-> Id_m], [name |-> Id_llama3]>>
  /\ parsed[1].id = Id_llama3 /\ parsed[2].id = Id_m /\ parsed[3].id = Id_mistral

\* The rates of an entry are both there.
BothRates(e) == Truthy(e.pricing.prompt) /\ Truthy(e.pricing.completion)

\* C19: a parsed OpenRouter model has pricing only when its entry has both
\* rates, and then it has both; otherwise it has no pricing: never one rate.
C19_PricingBothOrNone ==
  (payload.provider = "openrouter" /\ parsed /= NotParsed) =>
    /\ \A i \in 1..Len(parsed) :
         \/ parsed[i].pricing = NoPricing
         \/ /\ Truthy(parsed[i].pricing.prompt)
            /\ Truthy(parsed[i].pricing.completion)
    /\ \A i \in 1..Len(parsed) :
         \E j \in 1..Len(PayloadEntries) :
           /\ PayloadEntries[j].id = parsed[i].id
           /\ parsed[i].pricing =
                IF BothRates(PayloadEntries[j])
                THEN PayloadEntries[j].pricing ELSE NoPricing
    /\ \A j \in 1..Len(PayloadEntries) :
         \E i \in 1..Len(parsed) :
           /\ PayloadEntries[j].id = parsed[i].id
           /\ parsed[i].pricing =
                IF BothRates(PayloadEntries[j])
                THEN PayloadEntries[j].pricing ELSE NoPricing

\* An entry with the prompt rate only and an entry with both rates.
C19_Witness ==
  /\ payload.provider = "openrouter" /\ parsed /= NotParsed
  /\ Len(parsed) = 2
  /\ parsed[1].id = Id_claude /\ parsed[1].pricing = NoPricing
  /\ parsed[2].id = Id_m
  /\ parsed[2].pricing = [prompt |-> Rate_3, completion |-> Rate_15]
  /\ \E j \in 1..2 :
       PayloadEntries[j].pricing = [prompt |-> Rate_3, completion |-> NoText]

\* C20: a payload without its top-level field, and an empty list, give the
\* empty list (and no error) with each of the three parsers.
C20_TotalOnMissing ==
  (parsed /= NotParsed /\ (~payload.data.present \/ payload.data.entries = <<>>))
    => parsed = <<>>

\* `{}` was given to parseOllamaModels.
C20_Witness ==
  /\ payload.provider = "ollama"
  /\ ~payload.data.present
  /\ parsed = <<>>

(***************************************************************************)
(* lib.ts: buildPrompt                                                     *)
(***************************************************************************)
\* A buildPrompt whose second replacement is missing.
buildPromptSelectionOnly(t, sel, ctx) == ReplaceAll(t, SelectionToken, sel)

buildPrompt(t, sel, ctx) ==
  ReplaceAll(ReplaceAll(t, SelectionToken, sel), ContextToken, ctx)

\* The texts the prompt inputs are built from: the two placeholders, their
\* halves, plain text and a "$&" replacement pattern.
PromptPieces ==
  { SelectionToken, ContextToken,
    <<"{", "{">>, <<"c", "o", "n", "t", "e", "x", "t", "}", "}">>,
    <<"a">>, <<"$", "&">> }

MaxTemplatePieces == 2
MaxInsertPieces == 1

\* Every concatenation of at most n pieces.
PiecesUpTo(n) ==
  { Flatten(ps) : ps \in UNION { [1..k -> PromptPieces] : k \in 0..n } }

InitPrompt ==
  /\ template \in PiecesUpTo(MaxTemplatePieces)
  /\ selection \in PiecesUpTo(MaxInsertPieces)
  /\ context \in PiecesUpTo(MaxInsertPieces)
  /\ prompt = NoText
  /\ LabelIdle /\ CatalogIdle /\ NoteNameIdle
  /\ ConfigIdle /\ CacheIdle /\ StreamIdle /\ SaveIdle

\* ExplainSelectionWithAiModal.onOpen builds the user prompt.
BuildPrompt ==
  /\ prompt = NoText
  /\ prompt' = buildPrompt(template, selection, context)
  /\ UNCHANGED <<template, selection, context, maxLength, label, catalogVars,
                 noteName,
                 configVars, cacheVars, streamVars, saveVars>>

NextPrompt == BuildPrompt

SpecPrompt == InitPrompt /\ [][NextPrompt]_vars

(***************************************************************************)
(* C1                                                                      *)
(***************************************************************************)
RECURSIVE SubstituteOnce(_, _, _)
\* One pass over the template: each placeholder found in the template is
\* replaced, and nothing that was put in is looked at again.
SubstituteOnce(t, sel, ctx) ==
  IF t = <<>> THEN <<>>
  ELSE IF StartsWith(t, SelectionToken)
       THEN sel \o SubstituteOnce(SubSeq(t, Len(SelectionToken) + 1, Len(t)), sel, ctx)
  ELSE IF StartsWith(t, ContextToken)
       THEN ctx \o SubstituteOnce(SubSeq(t, Len(ContextToken) + 1, Len(t)), sel, ctx)
  ELSE <<Head(t)>> \o SubstituteOnce(Tail(t), sel, ctx)

\* C1: buildPrompt applies exactly one substitution pass: the result is the
\* template with its own placeholders replaced, and a placeholder token that
\* came in with the selection or the context is left unexpanded.
C1_SinglePass ==
  prompt /= NoText => prompt = SubstituteOnce(template, selection, context)

(***************************************************************************)
(* C13                                                                     *)
(***************************************************************************)
RECURSIVE Parts(_)
\* The template cut, left to right, into its placeholders and the characters
\* between them.
Parts(t) ==
  IF t = <<>> THEN <<>>
  ELSE IF StartsWith(t, SelectionToken)
       THEN <<"selection">> \o Parts(SubSeq(t, Len(SelectionToken) + 1, Len(t)))
  ELSE IF StartsWith(t, ContextToken)
       THEN <<"context">> \o Parts(SubSeq(t, Len(ContextToken) + 1, Len(t)))
  ELSE <<Head(t)>> \o Parts(Tail(t))

\* The text a part of the template stands for in the prompt.
PartText(part, sel, ctx) ==
  IF part = "selection" THEN sel
  ELSE IF part = "context" THEN ctx
  ELSE <<part>>

\* C13: the prompt is the template with every `{{selection}}` replaced by the
\* selection and every `{{context}}` by the context, each put in as it is,
\* and with every other character of the template kept, in order; a template
\* without placeholders comes back as it is.
C13_EveryOccurrence ==
  prompt /= NoText =>
    LET parts == Parts(template)
    IN /\ prompt =
            Flatten([i \in 1..Len(parts) |->
                       PartText(parts[i], selection, context)])
       /\ (~Includes(template, SelectionToken)
           /\ ~Includes(template, ContextToken)) => prompt = template

(***************************************************************************)
(* lib.ts: buildMenuLabel                                                  *)
(***************************************************************************)
Ellipsis == <<".", ".", ".">>

\* s.substring(0, end): end is taken as 0 when negative and as s.length when
\* beyond it.
Substring0(s, end) ==
  SubSeq(s, 1, IF end < 0 THEN 0 ELSE IF end > Len(s) THEN Len(s) ELSE end)

\* A buildMenuLabel that cuts to maxLength before it adds the ellipsis.
buildMenuLabelNoRoom(t, sel, maxLen) ==
  LET truncatedSelection ==
        IF Len(sel) > 24 THEN Substring0(sel, 24) \o Ellipsis ELSE sel
      substituted ==
        ReplaceAll(ReplaceAll(t, SelectionToken, truncatedSelection),
                   ContextToken, Ellipsis)
  IN IF Len(substituted) > maxLen
     THEN Substring0(substituted, maxLen) \o Ellipsis
     ELSE substituted

\* A buildMenuLabel that cuts the template to maxLength before it fills the
\* placeholders in.
buildMenuLabelCutFirst(t, sel, maxLen) ==
  LET truncatedSelection ==
        IF Len(sel) > 24 THEN Substring0(sel, 24) \o Ellipsis ELSE sel
      cut ==
        IF Len(t) > maxLen THEN Substring0(t, maxLen - 3) \o Ellipsis ELSE t
  IN ReplaceAll(ReplaceAll(cut, SelectionToken, truncatedSelection),
                ContextToken, Ellipsis)

buildMenuLabel(t, sel, maxLen) ==
  LET truncatedSelection ==
        IF Len(sel) > 24 THEN Substring0(sel, 24) \o Ellipsis ELSE sel
      substituted ==
        ReplaceAll(ReplaceAll(t, SelectionToken, truncatedSelection),
                   ContextToken, Ellipsis)
  IN IF Len(substituted) > maxLen
     THEN Substring0(substituted, maxLen - 3) \o Ellipsis
     ELSE substituted

MaxLabelPieces == 3
MaxSelectionLength == 26

\* The texts a label template is built from: the placeholders and plain text.
LabelPieces ==
  { SelectionToken, ContextToken,
    <<"E", "x", "p", "l", "a", "i", "n", " ">>,
    <<"a", "n", "d", " ", "m", "o", "r", "e", " ", "t", "e", "x", "t", " ">> }

LabelTemplates ==
  { Flatten(ps) : ps \in UNION { [1..k -> LabelPieces] : k \in 0..MaxLabelPieces } }

\* A selection of n different characters.
SelectionOfLength(n) == SubSeq(Collation, 5, 4 + n)

\* The limits a label is asked for: the smallest that leaves room for the
\* ellipsis, the one of the tests and the default.
MaxLengths == {3, 30, 50}

Text_ZZ == <<"Z", "Z">>

InitLabel ==
  /\ template \in LabelTemplates
  /\ selection \in { SelectionOfLength(n) : n \in 0..MaxSelectionLength }
  /\ context = Text_ZZ
  /\ maxLength \in MaxLengths
  /\ prompt = NoText /\ label = NoText
  /\ CatalogIdle /\ NoteNameIdle
  /\ ConfigIdle /\ CacheIdle /\ StreamIdle /\ SaveIdle

\* The editor menu asks for the label of its item.
BuildMenuLabel ==
  /\ label = NoText
  /\ label' = buildMenuLabel(template, selection, maxLength)
  /\ UNCHANGED <<template, selection, context, prompt, maxLength, catalogVars,
                 noteName,
                 configVars, cacheVars, streamVars, saveVars>>

NextLabel == BuildMenuLabel

SpecLabel == InitLabel /\ [][NextLabel]_vars

(***************************************************************************)
(* C14, C15                                                                *)
(***************************************************************************)
\* s.endsWith(p)
EndsWith(s, p) == Len(p) <= Len(s) /\ SubSeq(s, Len(s) - Len(p) + 1, Len(s)) = p

\* The selection as the label shows it: its first 24 characters and an
\* ellipsis when it is longer than that.
ShownSelection ==
  IF Len(selection) > 24 THEN SubSeq(selection, 1, 24) \o Ellipsis ELSE selection

\* The label after the first stage: the shown selection for every
\* `{{selection}}`, then an ellipsis for every `{{context}}`.
FirstStage ==
  ReplaceAll(ReplaceAll(template, SelectionToken, ShownSelection),
             ContextToken, Ellipsis)

\* C14: for maxLength >= 3 the label is at most maxLength long, and it ends
\* with "..." whenever it was cut to fit maxLength.
C14_LabelFits ==
  (label /= NoText /\ maxLength >= 3) =>
    /\ Len(label) <= maxLength
    /\ Len(FirstStage) > maxLength => EndsWith(label, Ellipsis)

\* A label of a template and a long selection that had to be cut to 30.
C14_Witness ==
  /\ label /= NoText
  /\ maxLength = 30
  /\ Len(FirstStage) > 30
  /\ Len(selection) > 24
  /\ Len(label) = 30
  /\ EndsWith(label, Ellipsis)

\* C15: the selection is cut to 24 characters (plus "...") and every
\* `{{context}}` becomes "..." first, and only then is the label cut to
\* maxLength: a first-stage label that fits is the label, a longer one is cut
\* to its first maxLength - 3 characters plus "..."; the context is not in
\* the label.
C15_TwoStages ==
  label /= NoText =>
    /\ Len(FirstStage) <= maxLength => label = FirstStage
    /\ Len(FirstStage) > maxLength =>
         label = SubSeq(FirstStage, 1, maxLength - 3) \o Ellipsis
    /\ ~Includes(label, context)
    /\ ~Includes(label, ContextToken)

\* A template that is short enough as it is, but whose label is not: the
\* selection is shown cut to 24 characters and the label is cut again.
C15_Witness ==
  /\ label /= NoText
  /\ Len(template) <= maxLength
  /\ Len(selection) > 24
  /\ Includes(template, SelectionToken)
  /\ Len(FirstStage) > maxLength
  /\ maxLength = 30
  /\ label = SubSeq(FirstStage, 1, 27) \o Ellipsis

(***************************************************************************)
(* main.ts: ExplainSelectionWithAiModal.onOpen, the streaming session      *)
(*                                                                         *)
(* Times are milliseconds.  Date.now() reads the variable now, which moves *)
(* on (by 0 ms or more) while the handler awaits the stream.               *)
(***************************************************************************)
MaxChunks == 3
MaxElapsed == 2

\* 'Explain "{{selection}}" in the context of "{{context}}"'
DefaultUserPromptTemplate ==
  <<"E", "x", "p", "l", "a", "i", "n", " ", "\"">>
  \o SelectionToken \o
  <<"\"", " ", "i", "n", " ", "t", "h", "e", " ", "c", "o", "n", "t", "e", "x", "t", " ", "o", "f", " ", "\"">>
  \o ContextToken \o <<"\"">>

Text_Hel == <<"H", "e", "l">>
Text_lo == <<"l", "o">>
Text_AI == <<"A", "I">>

\* A chunk's usage, when it has none.
NoUsage == [present |-> FALSE, prompt_tokens |-> 0, completion_tokens |-> 0]
Usage(p, c) == [present |-> TRUE, prompt_tokens |-> p, completion_tokens |-> c]

\* The chunks a stream is made of in the model: content only, usage only,
\* both, neither.
Chunks ==
  { [content |-> Text_Hel, usage |-> NoUsage],
    [content |-> Text_lo, usage |-> NoUsage],
    [content |-> <<>>, usage |-> Usage(10, 2)],
    [content |-> <<>>, usage |-> Usage(7, 0)],
    [content |-> Text_lo, usage |-> Usage(10, 2)],
    [content |-> <<>>, usage |-> NoUsage] }

\* The errors the OpenAI client throws: all are Error objects, an API error
\* carries the HTTP status.
StreamErrors ==
  { [message |-> "Connection error.", hasStatus |-> FALSE, status |-> 0],
    [message |-> "401 Incorrect API key provided", hasStatus |-> TRUE,
     status |-> 401] }

RECURSIVE Digits(_)
\* A natural number in decimal, as `${n}` prints it.
Digits(n) ==
  IF n < 10 THEN <<Collation[CharRank("0") + n]>>
  ELSE Digits(n \div 10) \o <<Collation[CharRank("0") + (n % 10)]>>

RECURSIVE ToNat(_)
\* The number a text of decimal digits stands for.
ToNat(ds) ==
  IF ds = <<>> THEN 0
  ELSE 10 * ToNat(SubSeq(ds, 1, Len(ds) - 1))
       + (CharRank(ds[Len(ds)]) - CharRank("0"))

\* parseFloat of a decimal text with at most six decimals, in millionths.
parseFloat(t) ==
  LET dots == { i \in 1..Len(t) : t[i] = "." }
      dot == IF dots = {} THEN Len(t) + 1 ELSE CHOOSE i \in dots : TRUE
      frac == SubSeq(t, dot + 1, Len(t)) \o <<"0", "0", "0", "0", "0", "0">>
  IN ToNat(SubSeq(t, 1, dot - 1)) * 1000000 + ToNat(SubSeq(frac, 1, 6))

\* x / y rounded to the nearest integer, for x >= 0 and y > 0.
Rounded(x, y) == (2 * x + y) \div (2 * y)

\* tps: (completionTokens / (totalDuration / 1000)).toFixed(2), or "0.00".
tpsOf(ct, totalDuration) ==
  IF ct > 0
  THEN IF totalDuration = 0 THEN Infinity
       ELSE Finite(Rounded(ct * 100000, totalDuration))
  ELSE Finite(0)

\* cachedModels.find(m => m.id === id): the first such entry, if any.
FindModel(cachedModels, id) ==
  LET hits == { i \in 1..Len(cachedModels) : cachedModels[i].id = id }
  IN IF hits = {} THEN <<>>
     ELSE <<cachedModels[CHOOSE i \in hits : \A j \in hits : i <= j]>>

\* A cost block that does not ask whether tokens were reported.
costOfAlways(pt, ct, cachedModels, endpoint) ==
  LET found == FindModel(cachedModels, endpoint)
  IN IF found /= <<>> /\ found[1].pricing /= NoPricing
     THEN [ tokenInfo |-> pt > 0 \/ ct > 0, costInfo |-> TRUE,
            totalCost |-> pt * parseFloat(found[1].pricing.prompt)
                          + ct * parseFloat(found[1].pricing.completion) ]
     ELSE [tokenInfo |-> pt > 0 \/ ct > 0, costInfo |-> FALSE, totalCost |-> 0]

\* tokenInfo and costInfo; the cost is in millionths of a dollar (toFixed(6)).
costOf(pt, ct, cachedModels, endpoint) ==
  IF pt > 0 \/ ct > 0
  THEN LET found == FindModel(cachedModels, endpoint)
       IN IF found /= <<>> /\ found[1].pricing /= NoPricing
          THEN [ tokenInfo |-> TRUE, costInfo |-> TRUE,
                 totalCost |-> pt * parseFloat(found[1].pricing.prompt)
                               + ct * parseFloat(found[1].pricing.completion) ]
          ELSE [tokenInfo |-> TRUE, costInfo |-> FALSE, totalCost |-> 0]
  ELSE [tokenInfo |-> FALSE, costInfo |-> FALSE, totalCost |-> 0]

\* The metadata block's text; its fields are the record meta.
MetadataBlock == "\n\n---\n**Metadata**"

Fallback ==
  "There was an issue with the request. Please ensure plugin configuration settings are correct and try again."

\* The settings a session runs under in the model, and the caches it meets.
StreamSettings ==
  { [DEFAULT_SETTINGS EXCEPT !.dropdownValue = "openrouter",
                             !.baseURL = OpenRouterBaseURL],
    [DEFAULT_SETTINGS EXCEPT !.dropdownValue = "openrouter",
                             !.baseURL = OpenRouterBaseURL,
                             !.openRouterModel = Id_m],
    [DEFAULT_SETTINGS EXCEPT !.apiKey = "sk-test"] }

StreamCaches ==
  { <<>> }
  \cup { "openrouter" :> parseOpenRouterModels(l) :
            l \in { x \in OpenRouterListings : Len(x.entries) = 2 } }
  \cup { "openai" :> parseListing("openai", l) :
            l \in { x \in OpenAIListings : Len(x.entries) = 3 } }

\* openExplainModal has built the viewer; onOpen is about to run.
InitStream ==
  /\ settings \in StreamSettings
  /\ viewer = "open"
  /\ providerConfig = getProviderConfig(settings)
  /\ modelCache \in StreamCaches /\ pickers = <<>> /\ requests = <<>>
  /\ template = <<>> /\ selection = Text_AI /\ context = Text_AI
  /\ prompt = NoText
  /\ LabelIdle /\ CatalogIdle /\ NoteNameIdle
  /\ StreamIdle /\ SaveIdle

\* An onOpen that shows the action row, with its save button, at once.
OnOpenShowsSave ==
  /\ streamState = "Idle"
  /\ viewer = "open"
  /\ startTime' = now
  /\ prompt' = buildPrompt(
                 IF template /= <<>> THEN template ELSE DefaultUserPromptTemplate,
                 selection, context)
  /\ streamState' = "Streaming"
  /\ actionRow' = "flex"
  /\ UNCHANGED <<template, selection, context, maxLength, label, catalogVars,
                 noteName,
                 configVars, cacheVars, saveVars,
                 rollingText, promptTokens, completionTokens, firstTokenTime,
                 now, received, rendered, thrown, errorText, meta, fullText>>

\* onOpen up to the request: the session starts.
OnOpen ==
  /\ streamState = "Idle"
  /\ viewer = "open"
  /\ startTime' = now
  /\ prompt' = buildPrompt(
                 IF template /= <<>> THEN template ELSE DefaultUserPromptTemplate,
                 selection, context)
  /\ streamState' = "Streaming"
  /\ UNCHANGED <<template, selection, context, maxLength, label, catalogVars,
                 noteName,
                 configVars, cacheVars, saveVars,
                 rollingText, promptTokens, completionTokens, firstTokenTime,
                 now, received, rendered, thrown, errorText, meta, fullText,
                 actionRow>>

\* A chunk handler that keeps only the newest content.
ReceiveChunkOverwrites(chunk, d) ==
  /\ streamState = "Streaming"
  /\ Len(received) < MaxChunks
  /\ now + d <= T0 + MaxElapsed
  /\ now' = now + d
  /\ received' = Append(received, chunk)
  /\ IF chunk.content /= <<>>
     THEN /\ firstTokenTime' =
               IF firstTokenTime = NullTime THEN now' ELSE firstTokenTime
          /\ rollingText' = chunk.content
          /\ rendered' = rollingText'
     ELSE UNCHANGED <<firstTokenTime, rollingText, rendered>>
  /\ IF chunk.usage.present
     THEN /\ promptTokens' = chunk.usage.prompt_tokens
          /\ completionTokens' = chunk.usage.completion_tokens
     ELSE UNCHANGED <<promptTokens, completionTokens>>
  /\ UNCHANGED <<streamState, startTime, thrown, errorText, meta, fullText,
                 actionRow, libVars, configVars, cacheVars, saveVars>>

\* A chunk handler that keeps the first usage it is given.
ReceiveChunkFirstUsage(chunk, d) ==
  /\ streamState = "Streaming"
  /\ Len(received) < MaxChunks
  /\ now + d <= T0 + MaxElapsed
  /\ now' = now + d
  /\ received' = Append(received, chunk)
  /\ IF chunk.content /= <<>>
     THEN /\ firstTokenTime' =
               IF firstTokenTime = NullTime THEN now' ELSE firstTokenTime
          /\ rollingText' = rollingText \o chunk.content
          /\ rendered' = rollingText'
     ELSE UNCHANGED <<firstTokenTime, rollingText, rendered>>
  /\ IF chunk.usage.present /\ promptTokens = 0 /\ completionTokens = 0
     THEN /\ promptTokens' = chunk.usage.prompt_tokens
          /\ completionTokens' = chunk.usage.completion_tokens
     ELSE UNCHANGED <<promptTokens, completionTokens>>
  /\ UNCHANGED <<streamState, startTime, thrown, errorText, meta, fullText,
                 actionRow, libVars, configVars, cacheVars, saveVars>>

\* A chunk handler that takes the time of every content chunk.
ReceiveChunkLastToken(chunk, d) ==
  /\ streamState = "Streaming"
  /\ Len(received) < MaxChunks
  /\ now + d <= T0 + MaxElapsed
  /\ now' = now + d
  /\ received' = Append(received, chunk)
  /\ IF chunk.content /= <<>>
     THEN /\ firstTokenTime' = now'
          /\ rollingText' = rollingText \o chunk.content
          /\ rendered' = rollingText'
     ELSE UNCHANGED <<firstTokenTime, rollingText, rendered>>
  /\ IF chunk.usage.present
     THEN /\ promptTokens' = chunk.usage.prompt_tokens
          /\ completionTokens' = chunk.usage.completion_tokens
     ELSE UNCHANGED <<promptTokens, completionTokens>>
  /\ UNCHANGED <<streamState, startTime, thrown, errorText, meta, fullText,
                 actionRow, libVars, configVars, cacheVars, saveVars>>

\* One turn of the for-await loop: d ms later the next chunk is there.
ReceiveChunk(chunk, d) ==
  /\ streamState = "Streaming"
  /\ Len(received) < MaxChunks
  /\ now + d <= T0 + MaxElapsed
  /\ now' = now + d
  /\ received' = Append(received, chunk)
  /\ IF chunk.content /= <<>>
     THEN /\ firstTokenTime' =
               IF firstTokenTime = NullTime THEN now' ELSE firstTokenTime
          /\ rollingText' = rollingText \o chunk.content
          /\ rendered' = rollingText'
     ELSE UNCHANGED <<firstTokenTime, rollingText, rendered>>
  /\ IF chunk.usage.present
     THEN /\ promptTokens' = chunk.usage.prompt_tokens
          /\ completionTokens' = chunk.usage.completion_tokens
     ELSE UNCHANGED <<promptTokens, completionTokens>>
  /\ UNCHANGED <<streamState, startTime, thrown, errorText, meta, fullText,
                 actionRow, libVars, configVars, cacheVars, saveVars>>

\* The stream ends: the metadata is computed and shown, the action row too.
StreamEnd(d) ==
  /\ streamState = "Streaming"
  /\ now + d <= T0 + MaxElapsed
  /\ now' = now + d
  /\ LET endTime == now'
         totalDuration == endTime - startTime
         ttft == IF firstTokenTime /= NullTime /\ firstTokenTime /= 0
                 THEN firstTokenTime - startTime ELSE 0
         provider == settings.dropdownValue
         cachedModels == IF provider \in DOMAIN modelCache
                         THEN modelCache[provider] ELSE <<>>
         cost == costOf(promptTokens, completionTokens, cachedModels,
                        providerConfig.model)
     IN /\ meta' = [ totalDuration |-> totalDuration,
                     ttft |-> ttft,
                     tps |-> tpsOf(completionTokens, totalDuration),
                     tokenInfo |-> cost.tokenInfo,
                     costInfo |-> cost.costInfo,
                     totalCost |-> cost.totalCost,
                     speedInfo |-> completionTokens > 0 ]
        /\ fullText' = rollingText \o <<MetadataBlock>>
        /\ rendered' = fullText'
  /\ actionRow' = "flex"
  /\ streamState' = "Completed"
  /\ UNCHANGED <<rollingText, promptTokens, completionTokens, startTime,
                 firstTokenTime, received, thrown, errorText, libVars,
                 configVars, cacheVars, saveVars>>

\* A catch block that clears the viewer before it shows the message.
StreamErrorClears(err, d) ==
  /\ streamState = "Streaming"
  /\ now + d <= T0 + MaxElapsed
  /\ now' = now + d
  /\ thrown' = err
  /\ rendered' = NoText
  /\ errorText' =
       <<Fallback, "\n\nError: ", err.message>>
       \o (IF err.hasStatus
           THEN <<" (Status: ">> \o Digits(err.status) \o <<")">> ELSE <<>>)
  /\ streamState' = "Failed"
  /\ UNCHANGED <<rollingText, promptTokens, completionTokens, startTime,
                 firstTokenTime, received, meta, fullText, actionRow,
                 libVars, configVars, cacheVars, saveVars>>

\* The request or the stream throws: the catch block adds the message under
\* whatever the viewer shows.
StreamError(err, d) ==
  /\ streamState = "Streaming"
  /\ now + d <= T0 + MaxElapsed
  /\ now' = now + d
  /\ thrown' = err
  /\ errorText' =
       <<Fallback, "\n\nError: ", err.message>>
       \o (IF err.hasStatus
           THEN <<" (Status: ">> \o Digits(err.status) \o <<")">> ELSE <<>>)
  /\ streamState' = "Failed"
  /\ UNCHANGED <<rollingText, promptTokens, completionTokens, startTime,
                 firstTokenTime, received, rendered, meta, fullText, actionRow,
                 libVars, configVars, cacheVars, saveVars>>

NextStream ==
  \/ OnOpen
  \/ \E chunk \in Chunks : \E d \in 0..MaxElapsed : ReceiveChunk(chunk, d)
  \/ \E d \in 0..MaxElapsed : StreamEnd(d)
  \/ \E err \in StreamErrors : \E d \in 0..MaxElapsed : StreamError(err, d)

SpecStream == InitStream /\ [][NextStream]_vars

(***************************************************************************)
(* C6                                                                      *)
(***************************************************************************)
\* The content of each chunk received, in arrival order (empty for a chunk
\* that carries none).
Contents(chunks) == [i \in 1..Len(chunks) |-> chunks[i].content]

\* C6: after any sequence of chunks the accumulated text is the concatenation,
\* in arrival order, of the content of the chunks received so far; a chunk
\* without content adds nothing.
C6_AccumulatedText == rollingText = Flatten(Contents(received))

\* "Hel", "lo" and a usage-only chunk have arrived and the text is "Hello".
C6_Witness ==
  /\ received = << [content |-> Text_Hel, usage |-> NoUsage],
                   [content |-> Text_lo, usage |-> NoUsage],
                   [content |-> <<>>, usage |-> Usage(10, 2)] >>
  /\ rollingText = <<"H", "e", "l", "l", "o">>
  /\ completionTokens = 2

(***************************************************************************)
(* C7                                                                      *)
(***************************************************************************)
\* C7: an error at any point of the session (before the first chunk or between
\* chunks) ends it in Failed; the viewer still shows the text accumulated
\* before the error, and the message is the fallback sentence, then the
\* error's message, then the status code when the error carries one.
C7_FailedKeepsText ==
  /\ thrown /= NoError <=> streamState = "Failed"
  /\ streamState = "Failed" =>
       /\ rollingText = Flatten(Contents(received))
       /\ rendered = IF rollingText = <<>> THEN NoText ELSE rollingText
       /\ errorText[1] = Fallback
       /\ errorText[2] = "\n\nError: " /\ errorText[3] = thrown.message
       /\ IF thrown.hasStatus
          THEN /\ Len(errorText) > 5
               /\ errorText[4] = " (Status: "
               /\ ToNat(SubSeq(errorText, 5, Len(errorText) - 1)) = thrown.status
               /\ errorText[Len(errorText)] = ")"
          ELSE Len(errorText) = 3

\* A stream failed with a status after "Hel" had been shown.
C7_Witness ==
  /\ streamState = "Failed"
  /\ thrown.hasStatus
  /\ received /= <<>>
  /\ rollingText = Text_Hel
  /\ rendered = Text_Hel

(***************************************************************************)
(* C8                                                                      *)
(***************************************************************************)
\* C8: for every completed session the tokens-per-second is zero when the
\* completion token count is zero and otherwise completion tokens divided by
\* the elapsed seconds (to two decimals); it is never negative, infinite or
\* undefined, whatever the start and completion timestamps are.
C8_TpsWellDefined ==
  streamState = "Completed" =>
    /\ meta.tps.kind = "finite"
    /\ meta.tps.hundredths >= 0
    /\ completionTokens = 0 => meta.tps.hundredths = 0
    /\ completionTokens > 0 =>
         meta.tps.hundredths =
           Rounded(completionTokens * 100000, meta.totalDuration)

(***************************************************************************)
(* C9                                                                      *)
(***************************************************************************)
\* The cached entries of the active provider that are the active model and
\* carry pricing.
PricedEntries ==
  LET provider == settings.dropdownValue
      cached == IF provider \in DOMAIN modelCache
                THEN modelCache[provider] ELSE <<>>
  IN { cached[i] : i \in { j \in 1..Len(cached) :
                             /\ cached[j].id = providerConfig.model
                             /\ cached[j].pricing /= NoPricing } }

\* C9: on completion the metadata has a cost exactly when pricing is known for
\* the active model and tokens were reported, and the cost is
\* promptTokens * promptRate + completionTokens * completionRate.
C9_CostWhenPricedAndReported ==
  streamState = "Completed" =>
    /\ meta.costInfo <=>
         (promptTokens > 0 \/ completionTokens > 0) /\ PricedEntries /= {}
    /\ meta.costInfo =>
         \E m \in PricedEntries :
           meta.totalCost =
             promptTokens * parseFloat(m.pricing.prompt)
             + completionTokens * parseFloat(m.pricing.completion)

\* 10 prompt and 2 completion tokens at 0.000003 and 0.000015 a token cost
\* 0.000060.
C9_Witness ==
  /\ streamState = "Completed"
  /\ promptTokens = 10 /\ completionTokens = 2
  /\ meta.costInfo
  /\ meta.totalCost = 60

(***************************************************************************)
(* C26, C27                                                                *)
(***************************************************************************)
\* The places of the chunks that carry usage, and of those that carry content.
UsageChunks == { i \in 1..Len(received) : received[i].usage.present }
ContentChunks == { i \in 1..Len(received) : received[i].content /= <<>> }

\* The step takes a chunk from the stream.
ChunkArrives == Len(received') = Len(received) + 1

\* C26: the token counts are 0 while no chunk with usage has arrived, and
\* otherwise those of the latest chunk with usage: a chunk with usage sets
\* both, a chunk without leaves both, and the end of the stream (or its
\* failure) changes neither, so a stream without usage completes with 0 and 0.
C26_LatestUsageWins ==
  /\ [](IF UsageChunks = {}
        THEN promptTokens = 0 /\ completionTokens = 0
        ELSE LET last == CHOOSE i \in UsageChunks : \A j \in UsageChunks : j <= i
             IN /\ promptTokens = received[last].usage.prompt_tokens
                /\ completionTokens = received[last].usage.completion_tokens)
  /\ [][ IF ChunkArrives /\ received'[Len(received')].usage.present
         THEN /\ promptTokens' = received'[Len(received')].usage.prompt_tokens
              /\ completionTokens' =
                   received'[Len(received')].usage.completion_tokens
         ELSE promptTokens' = promptTokens /\ completionTokens' = completionTokens
       ]_vars

\* Two chunks with usage arrived, 10 and 2 and then 7 and 0, and the stream
\* completed: the counts are the later chunk's.
C26_Witness ==
  /\ streamState = "Completed"
  /\ \E i, j \in UsageChunks :
       /\ i < j
       /\ received[i].usage = Usage(10, 2)
       /\ received[j].usage = Usage(7, 0)
       /\ \A k \in UsageChunks : k <= j
  /\ promptTokens = 7 /\ completionTokens = 0

\* A stream without usage has completed with content: the counts are 0.
C26_NoUsageWitness ==
  /\ streamState = "Completed"
  /\ UsageChunks = {} /\ ContentChunks /= {}
  /\ promptTokens = 0 /\ completionTokens = 0

\* C27: firstTokenTime is unset exactly while no chunk with content has
\* arrived; it is set by the first chunk with content, to the time of that
\* chunk, and no later chunk (with content, with usage only, or empty) nor
\* the end of the stream changes it.  At completion ttft is firstTokenTime -
\* startTime, or 0 when no chunk had content, and 0 <= ttft <= totalDuration.
C27_FirstTokenOnce ==
  /\ [](firstTokenTime = NullTime <=> ContentChunks = {})
  /\ [][ /\ firstTokenTime /= NullTime => firstTokenTime' = firstTokenTime
         /\ (firstTokenTime = NullTime /\ firstTokenTime' /= NullTime) =>
              /\ ChunkArrives
              /\ received'[Len(received')].content /= <<>>
              /\ firstTokenTime' = now'
       ]_vars
  /\ [](streamState = "Completed" =>
         /\ meta.ttft = IF ContentChunks = {} THEN 0
                        ELSE firstTokenTime - startTime
         /\ 0 <= meta.ttft /\ meta.ttft <= meta.totalDuration
         /\ meta.totalDuration = now - startTime)

\* A chunk with usage only came first, content came 1 ms after the start,
\* more content after that, and the stream ended 2 ms after the start.
C27_Witness ==
  /\ streamState = "Completed"
  /\ Len(received) = 3
  /\ received[1].content = <<>> /\ received[1].usage.present
  /\ ContentChunks = {2, 3}
  /\ firstTokenTime = startTime + 1
  /\ meta.ttft = 1 /\ meta.totalDuration = 2

\* No chunk had content: ttft is 0 in a stream that took 2 ms.
C27_NoContentWitness ==
  /\ streamState = "Completed"
  /\ received /= <<>> /\ ContentChunks = {}
  /\ meta.ttft = 0 /\ meta.totalDuration = 2

(***************************************************************************)
(* lib.ts: sanitizeFileName                                                *)
(***************************************************************************)
ForbiddenChars == {"*", "\"", "\\", "/", "<", ">", ":", "|", "?"}
Whitespace == {" ", "\t", "\n", "\r"}

NotForbidden(c) == c \notin ForbiddenChars

RECURSIVE TrimStart(_)
TrimStart(t) ==
  IF t /= <<>> /\ Head(t) \in Whitespace THEN TrimStart(Tail(t)) ELSE t

RECURSIVE TrimEnd(_)
TrimEnd(t) ==
  IF t /= <<>> /\ t[Len(t)] \in Whitespace
  THEN TrimEnd(SubSeq(t, 1, Len(t) - 1)) ELSE t

Trim(t) == TrimEnd(TrimStart(t))

\* A sanitizeFileName that trims before it cuts.
sanitizeFileNameTrimsFirst(name) ==
  LET stripped == Trim(SelectSeq(name, NotForbidden))
      cut == SubSeq(stripped, 1, IF Len(stripped) < 100 THEN Len(stripped) ELSE 100)
  IN IF cut /= <<>> THEN cut
     ELSE <<"A", "I", " ", "E", "x", "p", "l", "a", "n", "a", "t", "i", "o", "n">>

sanitizeFileName(name) ==
  LET stripped == SelectSeq(name, NotForbidden)
      cut == SubSeq(stripped, 1, IF Len(stripped) < 100 THEN Len(stripped) ELSE 100)
      trimmed == Trim(cut)
  IN IF trimmed /= <<>> THEN trimmed
     ELSE <<"A", "I", " ", "E", "x", "p", "l", "a", "n", "a", "t", "i", "o", "n">>

MaxNamePieces == 3

\* n times the character c.
Run(c, n) == [i \in 1..n |-> c]

\* The texts a selection is built from: forbidden characters, whitespace,
\* a letter, and runs that reach the 100-character cut.
NamePieces ==
  { <<":">>, <<"?", "*">>, <<" ">>, <<"\t">>, <<"a">>,
    Run("b", 99), Run(" ", 100) }

InitSanitize ==
  /\ selection \in
       { Flatten(ps) : ps \in UNION { [1..k -> NamePieces] : k \in 0..MaxNamePieces } }
  /\ noteName = NoText
  /\ template = <<>> /\ context = <<>> /\ prompt = NoText
  /\ LabelIdle /\ CatalogIdle
  /\ ConfigIdle /\ CacheIdle /\ StreamIdle /\ SaveIdle

\* The save handler makes the note's name from the selection.
SanitizeFileName ==
  /\ noteName = NoText
  /\ noteName' = sanitizeFileName(selection)
  /\ UNCHANGED <<promptVars, catalogVars, configVars, cacheVars, streamVars,
                 saveVars>>

NextSanitize == SanitizeFileName

SpecSanitize == InitSanitize /\ [][NextSanitize]_vars

(***************************************************************************)
(* C21                                                                     *)
(***************************************************************************)
Text_AIExplanation ==
  <<"A", "I", " ", "E", "x", "p", "l", "a", "n", "a", "t", "i", "o", "n">>

\* The first 100 of the selection's characters that are not forbidden.
KeptHead ==
  LET kept == SelectSeq(selection, NotForbidden)
  IN SubSeq(kept, 1, IF Len(kept) < 100 THEN Len(kept) ELSE 100)

\* C21: the file name is not empty, is at most 100 characters long, has none
\* of the characters * " \ / < > : | ? and neither starts nor ends with
\* whitespace; it is "AI Explanation" when nothing but whitespace is left of
\* the selection after the forbidden characters are taken out and it is cut.
C21_SafeFileName ==
  noteName /= NoText =>
    /\ Len(noteName) >= 1 /\ Len(noteName) <= 100
    /\ \A i \in 1..Len(noteName) : noteName[i] \notin ForbiddenChars
    /\ noteName[1] \notin Whitespace
    /\ noteName[Len(noteName)] \notin Whitespace
    /\ (\A i \in 1..Len(KeptHead) : KeptHead[i] \in Whitespace) =>
         noteName = Text_AIExplanation

\* 99 letters, a space and a letter: the cut leaves the space at the end and
\* the trim takes it away.
C21_Witness ==
  /\ selection = Run("b", 99) \o <<" ">> \o <<"a">>
  /\ noteName = Run("b", 99)

(***************************************************************************)
(* main.ts: "Save as Note & Link"                                          *)
(*                                                                         *)
(* The vault is a function from the paths of its files to their content.   *)
(* A click handler is a record that moves from one await to the next; the  *)
(* file operation it awaits takes effect in the step that resumes it.      *)
(***************************************************************************)
MaxPending == 2
MaxExisting == 2

Separator == "\n\n---\n\n"
DotMd == <<".", "m", "d">>

\* parentPath of the save handler: "" without an active file or at the root.
parentPathOf(parent) == IF parent = NoText \/ parent = <<"/">> THEN <<>> ELSE parent

\* `${parentPath}/${fileName}.md`, or `${fileName}.md`
fullPathOf(parent, fileName) ==
  (IF parentPathOf(parent) /= <<>> THEN parentPathOf(parent) \o <<"/">> ELSE <<>>)
  \o fileName \o DotMd

\* `${parentPath}/${fileName} ${counter}.md`, or `${fileName} ${counter}.md`
numberedPathOf(parent, fileName, counter) ==
  (IF parentPathOf(parent) /= <<>> THEN parentPathOf(parent) \o <<"/">> ELSE <<>>)
  \o fileName \o <<" ">> \o Digits(counter) \o DotMd

\* finalPath.replace(/\.md$/, "")
linkNameOf(path) ==
  IF Len(path) >= 3 /\ SubSeq(path, Len(path) - 2, Len(path)) = DotMd
  THEN SubSeq(path, 1, Len(path) - 3) ELSE path

\* `[[${linkName}|${this.userSelection}]]`
linkOf(path, userSelection) ==
  <<"[", "[">> \o linkNameOf(path) \o <<"|">> \o userSelection \o <<"]", "]">>

FileName == sanitizeFileName(selection)
FullPath == fullPathOf(activeParent, FileName)

Text_old == <<"o", "l", "d">>

\* The vaults a save starts from: any of the note and its first numbered
\* copies may be there already.
InitialVaults ==
  { [ path \in { IF k = 0 THEN FullPath
                 ELSE numberedPathOf(activeParent, FileName, k) : k \in ks }
        |-> Text_old ] : ks \in SUBSET (0..MaxExisting) }

\* The viewer after a stream of one chunk, "Hel", has completed.
InitSave ==
  /\ settings = [DEFAULT_SETTINGS EXCEPT !.apiKey = "sk-test"]
  /\ viewer = "open"
  /\ providerConfig = getProviderConfig(settings)
  /\ CacheIdle
  /\ template = <<>>
  /\ selection \in {Text_AI, <<"a", "/", "b">>}
  /\ context = Text_AI
  /\ prompt = buildPrompt(DefaultUserPromptTemplate, selection, context)
  /\ LabelIdle /\ CatalogIdle /\ NoteNameIdle
  /\ streamState = "Completed"
  /\ rollingText = Text_Hel
  /\ promptTokens = 0 /\ completionTokens = 0
  /\ startTime = T0 /\ firstTokenTime = T0 /\ now = T0
  /\ received = <<[content |-> Text_Hel, usage |-> NoUsage]>>
  /\ thrown = NoError /\ errorText = <<>>
  /\ meta = [NoMeta EXCEPT !.tps = tpsOf(0, 0)]
  /\ fullText = rollingText \o <<MetadataBlock>>
  /\ rendered = fullText
  /\ actionRow = "flex"
  /\ activeParent \in {NoText, <<"n">>}
  /\ vault \in InitialVaults
  /\ saves = <<>> /\ panels = 0 /\ editorLinks = <<>> /\ notices = {}

\* A handler that awaits its first file operation.
SaveTask(kind, pc) ==
  [ kind |-> kind, pc |-> pc, finalPath |-> FullPath, counter |-> 1,
    existing |-> <<>> ]

\* new Notice(...), replaceSelection(...) and this.close() after a save to
\* path: onClose empties the viewer, with its panels and buttons.
Saved(i, notice, path) ==
  /\ notices' = notices \cup {notice}
  /\ editorLinks' = Append(editorLinks, linkOf(path, selection))
  /\ viewer' = "closed"
  /\ rendered' = NoText
  /\ actionRow' = "none"
  /\ panels' = 0
  /\ saves' = RemoveAt(saves, i)

\* The click on "Save as Note & Link": the handler runs up to exists().
ClickSave ==
  /\ viewer = "open" /\ actionRow = "flex"
  /\ Len(saves) + panels < MaxPending
  /\ saves' = Append(saves, SaveTask("save", "exists"))
  /\ UNCHANGED <<vault, activeParent, panels, editorLinks, notices, libVars,
                 configVars, cacheVars, streamVars>>

\* exists(fullPath) answers: a conflict panel is shown, or create() is called.
SaveExists(i) ==
  /\ saves[i].kind = "save" /\ saves[i].pc = "exists"
  /\ IF FullPath \in DOMAIN vault
     THEN /\ saves' = RemoveAt(saves, i)
          /\ panels' = IF viewer = "open" THEN panels + 1 ELSE panels
     ELSE /\ saves' = [saves EXCEPT ![i].pc = "create"]
          /\ UNCHANGED panels
  /\ UNCHANGED <<vault, activeParent, editorLinks, notices, libVars,
                 configVars, cacheVars, streamVars>>

\* A create that writes over a file that is there.
SaveCreateOverwrites(i) ==
  /\ saves[i].pc = "create"
  /\ vault' = (saves[i].finalPath :> fullText) @@ vault
  /\ Saved(i, "Saved to", saves[i].finalPath)
  /\ UNCHANGED <<activeParent, libVars, settings, providerConfig, cacheVars,
                 streamState, rollingText, promptTokens, completionTokens,
                 startTime, firstTokenTime, now, received, thrown, errorText,
                 meta, fullText>>

\* vault.create(finalPath, fullText) returns: the note is there, the link is
\* put in and the viewer closes.  (create fails for a path that is taken.)
SaveCreate(i) ==
  /\ saves[i].pc = "create"
  /\ saves[i].finalPath \notin DOMAIN vault
  /\ vault' = (saves[i].finalPath :> fullText) @@ vault
  /\ Saved(i, "Saved to", saves[i].finalPath)
  /\ UNCHANGED <<activeParent, libVars, settings, providerConfig, cacheVars,
                 streamState, rollingText, promptTokens, completionTokens,
                 startTime, firstTokenTime, now, received, thrown, errorText,
                 meta, fullText>>

\* "Append to existing": the panel goes and handleChoice runs up to read().
ChooseAppend ==
  /\ viewer = "open" /\ panels > 0
  /\ panels' = panels - 1
  /\ saves' = Append(saves, SaveTask("append", "read"))
  /\ UNCHANGED <<vault, activeParent, editorLinks, notices, libVars,
                 configVars, cacheVars, streamVars>>

\* "Create numbered copy": the panel goes and handleChoice runs up to the
\* first exists() of its loop.
ChooseNew ==
  /\ viewer = "open" /\ panels > 0
  /\ panels' = panels - 1
  /\ saves' = Append(saves, SaveTask("new", "probe"))
  /\ UNCHANGED <<vault, activeParent, editorLinks, notices, libVars,
                 configVars, cacheVars, streamVars>>

\* read(fullPath) returns the note's content; write() is called.
AppendRead(i) ==
  /\ saves[i].kind = "append" /\ saves[i].pc = "read"
  /\ FullPath \in DOMAIN vault
  /\ saves' = [saves EXCEPT ![i].pc = "write", ![i].existing = vault[FullPath]]
  /\ UNCHANGED <<vault, activeParent, panels, editorLinks, notices, libVars,
                 configVars, cacheVars, streamVars>>

\* An append that writes the new text alone.
AppendWriteReplaces(i) ==
  /\ saves[i].kind = "append" /\ saves[i].pc = "write"
  /\ vault' = (FullPath :> fullText) @@ vault
  /\ Saved(i, "Appended to", FullPath)
  /\ UNCHANGED <<activeParent, libVars, settings, providerConfig, cacheVars,
                 streamState, rollingText, promptTokens, completionTokens,
                 startTime, firstTokenTime, now, received, thrown, errorText,
                 meta, fullText>>

\* write(fullPath, existing + separator + fullText) returns.
AppendWrite(i) ==
  /\ saves[i].kind = "append" /\ saves[i].pc = "write"
  /\ vault' = (FullPath :> (saves[i].existing \o <<Separator>> \o fullText))
              @@ vault
  /\ Saved(i, "Appended to", FullPath)
  /\ UNCHANGED <<activeParent, libVars, settings, providerConfig, cacheVars,
                 streamState, rollingText, promptTokens, completionTokens,
                 startTime, firstTokenTime, now, received, thrown, errorText,
                 meta, fullText>>

\* A probe that leaves out every other number.
NewProbeSkips(i) ==
  /\ saves[i].kind = "new" /\ saves[i].pc = "probe"
  /\ IF saves[i].finalPath \in DOMAIN vault
     THEN saves' = [saves EXCEPT
                      ![i].finalPath =
                        numberedPathOf(activeParent, FileName, saves[i].counter + 1),
                      ![i].counter = @ + 2]
     ELSE saves' = [saves EXCEPT ![i].pc = "create"]
  /\ UNCHANGED <<vault, activeParent, panels, editorLinks, notices, libVars,
                 configVars, cacheVars, streamVars>>

\* One turn of `while (await exists(finalPath))`: the next numbered path, or
\* out of the loop to create().
NewProbe(i) ==
  /\ saves[i].kind = "new" /\ saves[i].pc = "probe"
  /\ IF saves[i].finalPath \in DOMAIN vault
     THEN saves' = [saves EXCEPT
                      ![i].finalPath =
                        numberedPathOf(activeParent, FileName, saves[i].counter),
                      ![i].counter = @ + 1]
     ELSE saves' = [saves EXCEPT ![i].pc = "create"]
  /\ UNCHANGED <<vault, activeParent, panels, editorLinks, notices, libVars,
                 configVars, cacheVars, streamVars>>

\* A catch block that also closes the viewer.
SaveFailsCloses(i) ==
  /\ i \in 1..Len(saves)
  /\ saves' = RemoveAt(saves, i)
  /\ notices' = notices \cup {"Failed to save note."}
  /\ viewer' = "closed" /\ rendered' = NoText /\ actionRow' = "none"
  /\ panels' = 0
  /\ UNCHANGED <<vault, activeParent, editorLinks, libVars, settings,
                 providerConfig, cacheVars, streamState, rollingText,
                 promptTokens, completionTokens, startTime, firstTokenTime,
                 now, received, thrown, errorText, meta, fullText>>

\* The file operation a handler awaits fails (create: also because the path
\* is taken; read: also because the note is gone): the catch block.
SaveFails(i) ==
  /\ i \in 1..Len(saves)
  /\ saves' = RemoveAt(saves, i)
  /\ notices' = notices \cup {"Failed to save note."}
  /\ UNCHANGED <<vault, activeParent, panels, editorLinks, libVars,
                 configVars, cacheVars, streamVars>>

NextSave ==
  \/ ClickSave
  \/ \E i \in 1..Len(saves) : SaveExists(i)
  \/ \E i \in 1..Len(saves) : SaveCreate(i)
  \/ ChooseAppend
  \/ ChooseNew
  \/ \E i \in 1..Len(saves) : AppendRead(i)
  \/ \E i \in 1..Len(saves) : AppendWrite(i)
  \/ \E i \in 1..Len(saves) : NewProbe(i)
  \/ \E i \in 1..Len(saves) : SaveFails(i)

SpecSave == InitSave /\ [][NextSave]_vars

(***************************************************************************)
(* Claims about saving                                                     *)
(***************************************************************************)
\* The handler i that ends in this step.
Ends(i) == i \in 1..Len(saves) /\ saves' = RemoveAt(saves, i)

Writes == vault' /= vault \/ editorLinks' /= editorLinks

\* C3: a save whose path is free creates the note at exactly that path; a
\* save whose path is taken shows the choice and nothing is created, written
\* or put in the editor by it: a handler for Append or CreateNumbered starts
\* only when the user takes a choice from an open panel.
C3_SaveDecision ==
  [][ /\ Writes =>
           \E i \in 1..Len(saves) :
             /\ Ends(i)
             /\ saves[i].kind = "save" =>
                  /\ FullPath \notin DOMAIN vault
                  /\ vault' = (FullPath :> fullText) @@ vault
                  /\ editorLinks' =
                       Append(editorLinks, linkOf(FullPath, selection))
      /\ panels' > panels => FullPath \in DOMAIN vault /\ ~Writes
      /\ (/\ Len(saves') > Len(saves)
          /\ saves'[Len(saves')].kind /= "save") =>
           panels > 0 /\ panels' = panels - 1 /\ ~Writes
    ]_vars

\* The note is there already, the save was clicked and the choice is open:
\* the note is as it was and no link is in the editor.
C3_Witness ==
  /\ panels > 0
  /\ saves = <<>>
  /\ editorLinks = <<>>
  /\ FullPath \in DOMAIN vault /\ vault[FullPath] = Text_old

\* C4: the note a CreateNumbered choice creates is at `<name> k.md` for the
\* smallest k >= 1 whose path is unused, it is a new file, and every file
\* that was there is as it was.
C4_NumberedCopy ==
  [][ \A i \in 1..Len(saves) :
        (Ends(i) /\ saves[i].kind = "new" /\ Writes) =>
          \E k \in 1..saves[i].counter :
            /\ numberedPathOf(activeParent, FileName, k) \notin DOMAIN vault
            /\ \A j \in 1..(k - 1) :
                 numberedPathOf(activeParent, FileName, j) \in DOMAIN vault
            /\ FullPath \in DOMAIN vault
            /\ vault' = (numberedPathOf(activeParent, FileName, k) :> fullText)
                        @@ vault
            /\ \A p \in DOMAIN vault : vault'[p] = vault[p]
    ]_vars

\* `<name> 1.md` was taken: the numbered copy is `<name> 2.md`.
C4_Witness ==
  /\ numberedPathOf(activeParent, FileName, 1) \in DOMAIN vault
  /\ vault[numberedPathOf(activeParent, FileName, 1)] = Text_old
  /\ numberedPathOf(activeParent, FileName, 2) \in DOMAIN vault
  /\ vault[numberedPathOf(activeParent, FileName, 2)] = fullText
  /\ editorLinks =
       <<linkOf(numberedPathOf(activeParent, FileName, 2), selection)>>

\* C5: an Append reads the content of the existing path and writes to that
\* same path the content it read, then the separator, then the new text; no
\* file is created and no other file changes.
C5_AppendInPlace ==
  [][ /\ \A i \in 1..Len(saves) :
           (/\ Len(saves') = Len(saves)
            /\ saves[i].pc = "read" /\ saves'[i].pc = "write") =>
             /\ FullPath \in DOMAIN vault
             /\ saves'[i].existing = vault[FullPath]
             /\ ~Writes
      /\ \A i \in 1..Len(saves) :
           (Ends(i) /\ saves[i].kind = "append" /\ Writes) =>
             /\ FullPath \in DOMAIN vault
             /\ DOMAIN vault' = DOMAIN vault
             /\ vault'[FullPath] =
                  saves[i].existing \o <<Separator>> \o fullText
             /\ \A p \in DOMAIN vault \ {FullPath} : vault'[p] = vault[p]
    ]_vars

\* The note holds what it held, the separator and the new text.
C5_Witness ==
  /\ FullPath \in DOMAIN vault
  /\ vault[FullPath] = Text_old \o <<Separator>> \o fullText
  /\ editorLinks = <<linkOf(FullPath, selection)>>

\* The step in which handler i learns that the note exists and shows the
\* choice (in a viewer that is still open).
ShowsChoice(i) ==
  /\ saves[i].kind = "save" /\ saves[i].pc = "exists"
  /\ FullPath \in DOMAIN vault
  /\ notices' = notices

\* C23: a handler whose file operation fails (whichever it awaits: exists,
\* read, write or create) reports "Failed to save note." and ends: no file
\* changes, no link is put in the editor, the viewer, what it renders and its
\* save button are as they were, and no handler is started in its place.
C23_FailedSaveAborts ==
  [][ \A i \in 1..Len(saves) :
        (Ends(i) /\ ~Writes /\ ~ShowsChoice(i)) =>
          /\ "Failed to save note." \in notices'
          /\ vault' = vault /\ editorLinks' = editorLinks
          /\ viewer' = viewer /\ rendered' = rendered
          /\ actionRow' = actionRow /\ panels' = panels
          /\ fullText' = fullText
          /\ Len(saves') = Len(saves) - 1
    ]_vars

\* A save has failed and no other has succeeded: the failure is reported,
\* the viewer is open with the response, no link is in the editor and no
\* handler is running.
C23_Witness ==
  /\ "Failed to save note." \in notices
  /\ viewer = "open" /\ rendered = fullText /\ actionRow = "flex"
  /\ editorLinks = <<>>
  /\ saves = <<>>
  /\ \A p \in DOMAIN vault : vault[p] = Text_old

(***************************************************************************)
(* C30                                                                     *)
(***************************************************************************)
\* The notes that are not as they were before the session.
WrittenNotes == { p \in DOMAIN vault : vault[p] /= Text_old }

\* C30: in one session at most one note is created or written, once, and at
\* most one link is put in the editor, whatever the clicks on the save button
\* and on the choices and however their handlers interleave.
C30_AtMostOneSave ==
  /\ Len(editorLinks) <= 1
  /\ Cardinality(WrittenNotes) <= 1
  /\ \A p \in WrittenNotes :
       vault[p] \in {fullText, Text_old \o <<Separator>> \o fullText}

(***************************************************************************)
(* The whole session of a viewer: onOpen streams, and its save button      *)
(* saves.  The chunks are content or content with usage, and no time       *)
(* passes between them.                                                    *)
(***************************************************************************)
SessionChunks ==
  { [content |-> Text_Hel, usage |-> NoUsage],
    [content |-> Text_lo, usage |-> Usage(10, 2)] }

InitSession ==
  /\ settings = [DEFAULT_SETTINGS EXCEPT !.apiKey = "sk-test"]
  /\ viewer = "open"
  /\ providerConfig = getProviderConfig(settings)
  /\ CacheIdle
  /\ template = <<>> /\ selection = Text_AI /\ context = Text_AI
  /\ prompt = NoText
  /\ LabelIdle /\ CatalogIdle /\ NoteNameIdle
  /\ StreamIdle
  /\ activeParent = NoText
  /\ vault \in InitialVaults
  /\ saves = <<>> /\ panels = 0 /\ editorLinks = <<>> /\ notices = {}

NextSession ==
  \/ OnOpen
  \/ \E chunk \in SessionChunks : ReceiveChunk(chunk, 0)
  \/ StreamEnd(0)
  \/ \E err \in StreamErrors : StreamError(err, 0)
  \/ NextSave

SpecSession == InitSession /\ [][NextSession]_vars

(***************************************************************************)
(* C25                                                                     *)
(***************************************************************************)
\* Something of a save happens in the step: a handler starts, moves on or
\* ends, a choice is shown or taken, a file or the editor changes, or a notice
\* is raised.
SaveActs ==
  \/ saves' /= saves \/ panels' /= panels
  \/ Writes \/ notices' /= notices

\* C25: the save button is shown only in a Completed session, and a save
\* acts only there: while the session is Idle, Streaming or Failed no handler
\* runs, no file is created or written and no link is put in the editor.
\* What a save writes is the accumulated response and then the metadata
\* block, alone in a new note or at the end of the note appended to.
C25_SaveOnlyAfterCompleted ==
  /\ [](streamState /= "Completed" =>
         /\ actionRow = "none"
         /\ saves = <<>> /\ panels = 0 /\ editorLinks = <<>>)
  /\ [][ /\ SaveActs => streamState = "Completed" /\ streamState' = "Completed"
         /\ streamState' /= "Completed" => vault' = vault
         /\ \A p \in DOMAIN vault' :
              (p \notin DOMAIN vault \/ vault'[p] /= vault[p]) =>
                /\ fullText = rollingText \o <<MetadataBlock>>
                /\ IF p \in DOMAIN vault
                   THEN EndsWith(vault'[p], <<Separator>> \o fullText)
                   ELSE vault'[p] = fullText
       ]_vars

\* A stream of two chunks has completed and its save has created the note
\* with both chunks' text and the metadata block, and put in the link.
C25_Witness ==
  /\ streamState = "Completed"
  /\ Len(received) = 2
  /\ rollingText = Text_Hel \o Text_lo
  /\ FullPath \in DOMAIN vault
  /\ vault[FullPath] = Text_Hel \o Text_lo \o <<MetadataBlock>>
  /\ editorLinks = <<linkOf(FullPath, selection)>>

====
